---- MODULE Spec2Model ----
(***************************************************************************)
(* The lease protocol of convex-mq (component mode): the message table,    *)
(* the mutations and queries of the component (publish, publishBatch,      *)
(* peek, claim, claimByIds, ack, nack) and the scheduled reclaimStale      *)
(* callback.  Every mutation is one Convex transaction, hence one atomic   *)
(* action.  Time is not modelled: a scheduled callback may run at any      *)
(* moment after the claim that scheduled it.  The random claimIds are      *)
(* taken to be pairwise distinct.                                          *)
(*                                                                         *)
(* The reactive consumer (consume) runs on top of it: one engine per call  *)
(* of consume, each a JavaScript task that yields at every await, so that  *)
(* the subscription callback can run between any two of its steps.         *)
(***************************************************************************)
EXTENDS Integers, Sequences, FiniteSets, TLC

----------------------------------------------------------------------------
(* Bounds of the model.                                                    *)

\* rows ever inserted plus lease tokens ever generated
MaxWork == 4

----------------------------------------------------------------------------
(* Values.                                                                 *)

\* an optional argument or optional field that is not there
Undefined == 0

\* a string that is not an id of the messages table ("not-a-real-id")
InvalidMessageId == 0

DefaultMaxAttempts == 3

DefaultVisibilityTimeoutMs == 30000

DefaultLimit == 1

\* the default of the limit argument of claim in the library mode
DefaultLibraryLimit == 5

MaxAttemptsExceeded == "Max attempts exceeded"

Payloads == {"a", "b"}

\* the publish calls tried: a payload with the limits left to their defaults,
\* and another payload with maxAttempts 1
PublishArgs ==
    {[payload |-> "a", maxAttempts |-> Undefined,
      visibilityTimeoutMs |-> Undefined],
     [payload |-> "b", maxAttempts |-> 1,
      visibilityTimeoutMs |-> Undefined]}

\* the optional error argument of nack, left out
UndefinedError == "undefined"

\* values of the optional error argument of nack
ErrorArgs == {UndefinedError, "boom"}

\* values of the optional limit argument of claim
LimitArgs == {Undefined, 1, 2}

\* a claimId string that is never generated ("wrong-claim-id")
WrongClaimId == MaxWork + 1

\* the consume() calls made: two clients on one queue
Engines == {1, 2}

\* values of options.batchSize
BatchSizes == {1, 2}

\* what a handler invocation comes to: it resolves, or it throws an Error
\* with this message
HandlerResults == {"ok", "handler failure"}

VARIABLES
    messages,     \* the messages table: id -> row, for the rows that exist
    inserted,     \* number of rows inserted so far (the next id is inserted + 1)
    generated,    \* number of claimIds generated so far
    scheduled,    \* callbacks handed to ctx.scheduler.runAfter and not yet run
    last,         \* the operation that ran last, its arguments and what it returned
    history,      \* history: id -> what has happened to the row so far
                  \* (leasedAt: the attempts it had before its latest claim)
    held,         \* history: ids returned by a claim and not yet released
    ended,        \* history: leases <<id, claimId>> that have ended
    engine,       \* the consume() engines: engine number -> its variables
    inbox,        \* engine number -> the results of its subscription that
                  \* the client has not delivered to the callback yet
    poller        \* the consumePolling() loop: its variables

vars == <<messages, inserted, generated, scheduled, last, history, held,
          ended, engine, inbox, poller>>

\* the variables of the consumers
consumers == <<engine, inbox, poller>>

----------------------------------------------------------------------------
(* Helpers.                                                                *)

RECURSIVE SortedSeq(_)
SortedSeq(S) ==
    IF S = {} THEN << >>
    ELSE LET m == CHOOSE x \in S : \A y \in S : x <= y
         IN  <<m>> \o SortedSeq(S \ {m})

\* query.take(n): the first n elements
take(s, n) == SubSeq(s, 1, IF n < Len(s) THEN n ELSE Len(s))

\* a generator that repeats itself
generateClaimIdRepeats(n) == 1

\* the n-th claimId generated.  generateClaimId draws 16 random characters;
\* successive draws are taken to be pairwise distinct.
generateClaimId(n) == n

\* ctx.db.normalizeId("messages", messageId): null for a malformed id
normalizeId(messageId) ==
    IF messageId = InvalidMessageId THEN Undefined ELSE messageId

\* the pending rows, newest first
byStatusPendingDesc(db) ==
    LET s == SortedSeq({id \in DOMAIN db : db[id].status = "pending"})
    IN  [i \in 1..Len(s) |-> s[Len(s) + 1 - i]]

\* an index scan that returns the rows of every status
byStatusAny(db) == SortedSeq(DOMAIN db)

\* an index that puts the rows that have been claimed before behind the rows
\* that have not
byStatusPendingFreshFirst(db) ==
    SortedSeq({id \in DOMAIN db :
                  db[id].status = "pending" /\ db[id].attempts = 0})
    \o SortedSeq({id \in DOMAIN db :
                     db[id].status = "pending" /\ db[id].attempts > 0})

\* withIndex("by_status", q => q.eq("status", "pending")): the pending rows
\* in index order, which is insertion order
byStatusPending(db) ==
    SortedSeq({id \in DOMAIN db : db[id].status = "pending"})

\* the transaction context a handler works on, and what it returns
Ctx == [messages |-> messages, inserted |-> inserted, generated |-> generated,
        scheduled |-> scheduled, outcome |-> "ok", ids |-> << >>,
        claimed |-> << >>, exhausted |-> {}]

----------------------------------------------------------------------------
(* Handlers, as functions from the context to the context.                 *)

\* an insert that counts the publish as an attempt
insertAttemptsOne(ctx, payload, maxAttempts, visibilityTimeoutMs) ==
    LET id == ctx.inserted + 1
        row == [payload |-> payload,
                status |-> "pending",
                attempts |-> 1,
                maxAttempts |-> IF maxAttempts = Undefined
                                THEN DefaultMaxAttempts ELSE maxAttempts,
                visibilityTimeoutMs |-> IF visibilityTimeoutMs = Undefined
                                        THEN DefaultVisibilityTimeoutMs
                                        ELSE visibilityTimeoutMs,
                claimId |-> Undefined]
    IN  [ctx EXCEPT !.messages = (id :> row) @@ ctx.messages,
                    !.inserted = id,
                    !.ids = Append(@, id)]

\* ctx.db.insert("messages", {...})
insert(ctx, payload, maxAttempts, visibilityTimeoutMs) ==
    LET id == ctx.inserted + 1
        row == [payload |-> payload,
                status |-> "pending",
                attempts |-> 0,
                maxAttempts |-> IF maxAttempts = Undefined
                                THEN DefaultMaxAttempts ELSE maxAttempts,
                visibilityTimeoutMs |-> IF visibilityTimeoutMs = Undefined
                                        THEN DefaultVisibilityTimeoutMs
                                        ELSE visibilityTimeoutMs,
                claimId |-> Undefined]
    IN  [ctx EXCEPT !.messages = (id :> row) @@ ctx.messages,
                    !.inserted = id,
                    !.ids = Append(@, id)]

publishHandler(ctx, payload, maxAttempts, visibilityTimeoutMs) ==
    insert(ctx, payload, maxAttempts, visibilityTimeoutMs)

RECURSIVE publishBatchHandler(_, _)
publishBatchHandler(ctx, msgs) ==
    IF msgs = << >> THEN ctx
    ELSE publishBatchHandler(
             insert(ctx, Head(msgs).payload, Head(msgs).maxAttempts,
                    Head(msgs).visibilityTimeoutMs),
             Tail(msgs))

\* a peek that looks for any row
peekHandlerAnyStatus(ctx) ==
    [ctx EXCEPT !.outcome = IF DOMAIN ctx.messages # {} THEN "true" ELSE "false"]

peekHandler(ctx) ==
    LET first == take(byStatusPending(ctx.messages), 1)
    IN  [ctx EXCEPT !.outcome = IF first # << >> THEN "true" ELSE "false"]

\* a filter that does not compare the worker
byWorkerAnyWorker(db, worker) == byStatusPending(db)

\* the filter of the example queue of the library mode: withIndex("by_worker",
\* idx => idx.eq("status", "pending").eq("worker", worker)).  The library keeps
\* the user's fields on the row itself; the payload of the model is the one
\* user field there is, and plays the worker.
byWorker(db, worker) ==
    SortedSeq({id \in DOMAIN db :
                  db[id].status = "pending" /\ db[id].payload = worker})

\* the peek of the library mode when a filter is configured
peekByWorkerHandler(ctx, worker) ==
    LET first == take(byWorker(ctx.messages, worker), 1)
    IN  [ctx EXCEPT !.outcome = IF first # << >> THEN "true" ELSE "false"]

\* a claim that returns the attempts it read instead of the attempts it wrote
claimRowStaleAttempts(ctx, id, msg) ==
    LET attempts == msg.attempts + 1
        claimId == generateClaimId(ctx.generated + 1)
    IN  [ctx EXCEPT
            !.generated = @ + 1,
            !.messages[id] = [@ EXCEPT !.status = "claimed",
                                       !.attempts = attempts,
                                       !.claimId = claimId],
            !.scheduled = @ \cup {[delay |-> msg.visibilityTimeoutMs,
                                   messageId |-> id,
                                   claimId |-> claimId]},
            !.claimed = Append(@, [id |-> id, claimId |-> claimId,
                                   payload |-> msg.payload,
                                   attempts |-> msg.attempts])]

\* a claim that schedules no reclaim
claimRowNoSchedule(ctx, id, msg) ==
    LET attempts == msg.attempts + 1
        claimId == generateClaimId(ctx.generated + 1)
    IN  [ctx EXCEPT
            !.generated = @ + 1,
            !.messages[id] = [@ EXCEPT !.status = "claimed",
                                       !.attempts = attempts,
                                       !.claimId = claimId],
            !.claimed = Append(@, [id |-> id, claimId |-> claimId,
                                   payload |-> msg.payload,
                                   attempts |-> attempts])]

\* the body of the claim loops: patch the row, schedule the reclaim, push
claimRow(ctx, id, msg) ==
    LET attempts == msg.attempts + 1
        claimId == generateClaimId(ctx.generated + 1)
    IN  [ctx EXCEPT
            !.generated = @ + 1,
            !.messages[id] = [@ EXCEPT !.status = "claimed",
                                       !.attempts = attempts,
                                       !.claimId = claimId],
            !.scheduled = @ \cup {[delay |-> msg.visibilityTimeoutMs,
                                   messageId |-> id,
                                   claimId |-> claimId]},
            !.claimed = Append(@, [id |-> id, claimId |-> claimId,
                                   payload |-> msg.payload,
                                   attempts |-> attempts])]

\* for (const msg of pending): msg is the row as the scan read it
RECURSIVE claimLoop(_, _, _)
claimLoop(ctx, pending, snapshot) ==
    IF pending = << >> THEN ctx
    ELSE claimLoop(claimRow(ctx, Head(pending), snapshot[Head(pending)]),
                   Tail(pending), snapshot)

claimHandler(ctx, limit) ==
    LET lim == IF limit = Undefined THEN DefaultLimit ELSE limit
        pending == take(byStatusPending(ctx.messages), lim)
    IN  claimLoop(ctx, pending, ctx.messages)

\* the claim of the library mode when a filter is configured: baseQuery is
\* filterConfig.filter(ctx.db.query(tableName), args), the loop is the same
claimByWorkerHandler(ctx, limit, worker) ==
    LET lim == IF limit = Undefined THEN DefaultLibraryLimit ELSE limit
        pending == take(byWorker(ctx.messages, worker), lim)
    IN  claimLoop(ctx, pending, ctx.messages)

\* a claimByIds that does not look at the status of the row
claimByIdsStepAnyStatus(ctx, messageId) ==
    LET id == normalizeId(messageId)
    IN  IF id = Undefined THEN ctx
        ELSE IF id \notin DOMAIN ctx.messages THEN ctx
        ELSE claimRow(ctx, id, ctx.messages[id])

\* a claimByIds that throws on an id it cannot claim
claimByIdsStepThrows(ctx, messageId) ==
    LET id == normalizeId(messageId)
    IN  IF ctx.outcome # "ok" THEN ctx
        ELSE IF id = Undefined THEN [ctx EXCEPT !.outcome = "InvalidId"]
        ELSE IF id \notin DOMAIN ctx.messages
        THEN [ctx EXCEPT !.outcome = "NotFound"]
        ELSE IF ctx.messages[id].status # "pending"
        THEN [ctx EXCEPT !.outcome = "InvalidState"]
        ELSE claimRow(ctx, id, ctx.messages[id])

\* for (const messageId of args.messageIds): each row is read afresh
claimByIdsStep(ctx, messageId) ==
    LET id == normalizeId(messageId)
    IN  IF id = Undefined THEN ctx
        ELSE IF id \notin DOMAIN ctx.messages THEN ctx
        ELSE IF ctx.messages[id].status # "pending" THEN ctx
        ELSE claimRow(ctx, id, ctx.messages[id])

\* a claimByIds that reads the rows listed first and claims those it has
\* read as pending, as claim does with the rows of its scan
claimByIdsReadsFirst(ctx, messageIds) ==
    LET claimable(messageId) ==
            /\ normalizeId(messageId) # Undefined
            /\ messageId \in DOMAIN ctx.messages
            /\ ctx.messages[messageId].status = "pending"
    IN  claimLoop(ctx, SelectSeq(messageIds, claimable), ctx.messages)

RECURSIVE claimByIdsHandler(_, _)
claimByIdsHandler(ctx, messageIds) ==
    IF messageIds = << >> THEN ctx
    ELSE claimByIdsHandler(claimByIdsStep(ctx, Head(messageIds)),
                           Tail(messageIds))

\* an ack that compares the token before it looks at the status
ackChecksLeaseFirst(db, messageId, claimId) ==
    LET id == normalizeId(messageId)
    IN  IF id = Undefined THEN "InvalidId"
        ELSE IF id \notin DOMAIN db THEN "NotFound"
        ELSE IF db[id].claimId # claimId THEN "LeaseExpired"
        ELSE IF db[id].status # "claimed" THEN "InvalidState"
        ELSE "ok"

\* the checks ack makes before it touches the row: the error thrown, or "ok"
ackChecks(db, messageId, claimId) ==
    LET id == normalizeId(messageId)
    IN  IF id = Undefined THEN "InvalidId"
        ELSE IF id \notin DOMAIN db THEN "NotFound"
        ELSE IF db[id].status # "claimed" THEN "InvalidState"
        ELSE IF db[id].claimId # claimId THEN "LeaseExpired"
        ELSE "ok"

\* a nack that does not look at the status of the row
nackChecksNoStatus(db, messageId, claimId) ==
    LET id == normalizeId(messageId)
    IN  IF id = Undefined THEN "InvalidId"
        ELSE IF id \notin DOMAIN db THEN "NotFound"
        ELSE IF db[id].claimId # claimId THEN "LeaseExpired"
        ELSE "ok"

\* the checks nack makes before it touches the row: the error thrown, or "ok"
nackChecks(db, messageId, claimId) ==
    LET id == normalizeId(messageId)
    IN  IF id = Undefined THEN "InvalidId"
        ELSE IF id \notin DOMAIN db THEN "NotFound"
        ELSE IF db[id].status # "claimed" THEN "InvalidState"
        ELSE IF db[id].claimId # claimId THEN "LeaseExpired"
        ELSE "ok"

\* ctx.db.delete(id)
delete(db, id) == [m \in DOMAIN db \ {id} |-> db[m]]

\* an ack that puts the row back instead of deleting it
ackHandlerRequeues(ctx, messageId, claimId) ==
    LET check == ackChecks(ctx.messages, messageId, claimId)
    IN  IF check # "ok" THEN [ctx EXCEPT !.outcome = check]
        ELSE [ctx EXCEPT !.messages[messageId] =
                            [@ EXCEPT !.status = "pending",
                                      !.claimId = Undefined]]

\* an ack that answers without deleting the row
ackHandlerKeepsRow(ctx, messageId, claimId) ==
    LET check == ackChecks(ctx.messages, messageId, claimId)
    IN  IF check # "ok" THEN [ctx EXCEPT !.outcome = check] ELSE ctx

ackHandler(ctx, messageId, claimId) ==
    LET check == ackChecks(ctx.messages, messageId, claimId)
    IN  IF check # "ok" THEN [ctx EXCEPT !.outcome = check]
        ELSE [ctx EXCEPT !.messages = delete(@, messageId)]

\* an exhaustion test that is off by one
nackExhaustedOffByOne(msg) == msg.attempts > msg.maxAttempts

\* if (msg.attempts >= msg.maxAttempts)
nackExhausted(msg) == msg.attempts >= msg.maxAttempts

\* a patch that leaves the token on the row
nackPatchKeepsClaimId(msg) == [msg EXCEPT !.status = "pending"]

\* ctx.db.patch(id, { status: "pending", claimId: undefined })
nackPatch(msg) == [msg EXCEPT !.status = "pending", !.claimId = Undefined]

nackHandler(ctx, messageId, claimId, error) ==
    LET check == nackChecks(ctx.messages, messageId, claimId)
        msg == ctx.messages[messageId]
    IN  IF check # "ok" THEN [ctx EXCEPT !.outcome = check]
        ELSE IF nackExhausted(msg)
        THEN [ctx EXCEPT
                 !.messages = delete(@, messageId),
                 !.outcome = "exhausted",
                 !.exhausted = {[exhausted |-> TRUE,
                                 payload |-> msg.payload,
                                 attempts |-> msg.attempts,
                                 error |-> IF error = UndefinedError
                                           THEN MaxAttemptsExceeded
                                           ELSE error]}]
        ELSE [ctx EXCEPT !.messages[messageId] = nackPatch(msg),
                         !.outcome = "null"]

\* a reclaim that does not compare the token
reclaimAppliesAnyToken(db, messageId, claimId) ==
    LET id == normalizeId(messageId)
    IN  /\ id # Undefined
        /\ id \in DOMAIN db
        /\ db[id].status = "claimed"

\* whether reclaimStale goes on to patch the row
reclaimApplies(db, messageId, claimId) ==
    LET id == normalizeId(messageId)
    IN  /\ id # Undefined
        /\ id \in DOMAIN db
        /\ db[id].status = "claimed"
        /\ db[id].claimId = claimId

\* a reclaim that exhausts the message
reclaimPatchDeletes(db, id) == delete(db, id)

\* ctx.db.patch(id, { status: "pending", claimId: undefined })
reclaimPatch(db, id) ==
    [db EXCEPT ![id] = [@ EXCEPT !.status = "pending", !.claimId = Undefined]]

\* a reclaim that exhausts the message as nack does
reclaimStaleExhausts(ctx, messageId, claimId) ==
    IF reclaimApplies(ctx.messages, messageId, claimId)
    THEN IF nackExhausted(ctx.messages[messageId])
         THEN [ctx EXCEPT !.messages = delete(@, messageId)]
         ELSE [ctx EXCEPT !.messages = reclaimPatch(@, messageId)]
    ELSE ctx

reclaimStaleHandler(ctx, messageId, claimId) ==
    IF reclaimApplies(ctx.messages, messageId, claimId)
    THEN [ctx EXCEPT !.messages = reclaimPatch(@, messageId)]
    ELSE ctx

----------------------------------------------------------------------------
(* What a transaction does to the rows, read off its before and after.     *)

\* ids in the sequence of claimed messages a call returned
ClaimedIds(claimed) == {claimed[i].id : i \in 1..Len(claimed)}

\* how many of the claimed messages a call returned are row id
Occurrences(claimed, id) ==
    Len(SelectSeq(claimed, LAMBDA c : c.id = id))

\* rows that were claimed before and are no longer claimed under that token
Released(old, new) ==
    {id \in DOMAIN old :
        /\ old[id].status = "claimed"
        /\ \/ id \notin DOMAIN new
           \/ new[id].status # "claimed"
           \/ new[id].claimId # old[id].claimId}

\* commit the transaction that took the context to r
Commit(op, messageId, claimId, r) ==
    /\ messages' = r.messages
    /\ inserted' = r.inserted
    /\ generated' = r.generated
    /\ scheduled' = r.scheduled
    /\ last' = [op |-> op, messageId |-> messageId, claimId |-> claimId,
                outcome |-> r.outcome, ids |-> r.ids, claimed |-> r.claimed,
                exhausted |-> r.exhausted]
    /\ history' = [id \in DOMAIN history \cup DOMAIN r.messages |->
            IF id \notin DOMAIN history
            THEN [published |-> r.messages[id], claims |-> 0, nacks |-> 0,
                  reclaims |-> 0, deletes |-> 0, leasedAt |-> 0]
            ELSE [history[id] EXCEPT
                    !.claims = @ + Occurrences(r.claimed, id),
                    !.leasedAt = IF id \in ClaimedIds(r.claimed)
                                 THEN messages[id].attempts ELSE @,
                    !.nacks = IF op = "nack" /\ id = messageId
                                 /\ r.outcome \in {"null", "exhausted"}
                              THEN @ + 1 ELSE @,
                    !.reclaims = IF op = "reclaimStale" /\ id = messageId
                                    /\ r.messages # messages
                                 THEN @ + 1 ELSE @,
                    !.deletes = IF id \in DOMAIN messages \ DOMAIN r.messages
                                THEN @ + 1 ELSE @]]
    /\ held' = (held \ Released(messages, r.messages)) \cup ClaimedIds(r.claimed)
    /\ ended' = ended \cup {<<id, messages[id].claimId>> :
                                id \in Released(messages, r.messages)}

----------------------------------------------------------------------------
(* The operations.                                                         *)

\* consume(client, fns, handler, { batchSize }): the variables of one engine;
\* subscribed says that consume has been called and its subscription stands,
\* cancelled that the function consume returned has been called.
\* processing and hasPending are the two flags of the code; pc is where its
\* processLoop is waiting, claimed the batch it holds, i the message the
\* per-message loop is at, error the error that loop has caught; seen is the
\* result the callback was called with last.  calls and resolved record the
\* handler invocations and the ack and nack calls made for the batch held,
\* handled the messages this engine has passed to its handler and acked the
\* messages it has acked; deadLetters the exhausted results it has passed on
\* to the application; cycles counts the invocations of processLoop that
\* have set processing and have not reached their finally block.
NewEngine(batchSize, subscribed) ==
    [batchSize |-> batchSize, subscribed |-> subscribed, cancelled |-> FALSE,
     processing |-> FALSE, hasPending |-> FALSE,
     pc |-> "idle", claimed |-> << >>, path |-> "none", i |-> 0,
     error |-> "none", seen |-> "none", calls |-> << >>, resolved |-> << >>,
     handled |-> {}, acked |-> {}, deadLetters |-> {}, cycles |-> 0]

\* consumePolling(client, fns, handler, { batchSize }): the variables of the
\* loop.  aborted is controller.signal.aborted; pc is where poll is waiting
\* ("wait": the promise between two polls, "done": the loop has returned),
\* claimed the messages the poll holds, i the message the for loop is at,
\* error the error the inner catch has caught, caught the error the outer
\* catch of the poll has logged, handled the messages passed to the handler,
\* thrown the error the call of the store awaited last has raised.
\* poll() runs at once up to its first await: the test of the while loop
\* passes and the peek query is sent.
NewPoller(batchSize) ==
    [batchSize |-> batchSize, aborted |-> FALSE, pc |-> "peek",
     claimed |-> << >>, i |-> 0, error |-> "none", caught |-> "none",
     handled |-> {}, thrown |-> "none"]

\* consumePolling has not been called
NoPoller == [NewPoller(1) EXCEPT !.pc = "off"]

\* the empty table, nothing scheduled
EmptyQueue ==
    /\ messages = << >>
    /\ inserted = 0
    /\ generated = 0
    /\ scheduled = {}
    /\ last = [op |-> "init", messageId |-> Undefined, claimId |-> Undefined,
               outcome |-> "ok", ids |-> << >>, claimed |-> << >>,
               exhausted |-> {}]
    /\ history = << >>
    /\ held = {}
    /\ ended = {}

Init ==
    /\ EmptyQueue
    /\ engine = [e \in Engines |-> NewEngine(1, FALSE)]
    /\ inbox = [e \in Engines |-> << >>]
    /\ poller = NoPoller

\* the bound of the model: a transaction that would take the rows inserted
\* and the tokens generated past MaxWork is not started
WithinBounds(r) == r.inserted + r.generated <= MaxWork

publish(payload, maxAttempts, visibilityTimeoutMs) ==
    LET r == publishHandler(Ctx, payload, maxAttempts, visibilityTimeoutMs)
    IN  /\ WithinBounds(r)
        /\ Commit("publish", Undefined, Undefined, r)

publishBatch(msgs) ==
    LET r == publishBatchHandler(Ctx, msgs)
    IN  /\ WithinBounds(r)
        /\ Commit("publishBatch", Undefined, Undefined, r)

peek ==
    Commit("peek", Undefined, Undefined, peekHandler(Ctx))

peekByWorker(worker) ==
    Commit("peekByWorker", Undefined, Undefined,
           peekByWorkerHandler(Ctx, worker))

claim(limit) ==
    LET r == claimHandler(Ctx, limit)
    IN  /\ WithinBounds(r)
        /\ Commit("claim", Undefined, Undefined, r)

claimByWorker(limit, worker) ==
    LET r == claimByWorkerHandler(Ctx, limit, worker)
    IN  /\ WithinBounds(r)
        /\ Commit("claimByWorker", Undefined, Undefined, r)

claimByIds(messageIds) ==
    LET r == claimByIdsHandler(Ctx, messageIds)
    IN  /\ WithinBounds(r)
        /\ Commit("claimByIds", Undefined, Undefined, r)

ack(messageId, claimId) ==
    Commit("ack", messageId, claimId, ackHandler(Ctx, messageId, claimId))

nack(messageId, claimId, error) ==
    Commit("nack", messageId, claimId,
           nackHandler(Ctx, messageId, claimId, error))

\* the scheduler runs one of the callbacks it was handed, once
reclaimStale(job) ==
    /\ job \in scheduled
    /\ Commit("reclaimStale", job.messageId, job.claimId,
              LET r == reclaimStaleHandler(Ctx, job.messageId, job.claimId)
              IN  [r EXCEPT !.scheduled = @ \ {job}])

\* batches of one or two messages, the limits left to their defaults
BatchArgs ==
    LET Msg == [payload : Payloads, maxAttempts : {Undefined},
                visibilityTimeoutMs : {Undefined}]
    IN  {<<m>> : m \in Msg} \cup {<<m, n>> : m \in Msg, n \in Msg}

\* id strings a caller may pass: the ids handed out so far (of rows stored
\* or deleted) and a malformed one
MessageIdArgs == (1..inserted) \cup {InvalidMessageId}

\* id lists of one or two ids, repeated ids included
IdListArgs ==
    {<<a>> : a \in MessageIdArgs} \cup
    {<<a, b>> : a \in MessageIdArgs, b \in MessageIdArgs}

\* what a caller of ack or nack may pass: a lease some claim handed out,
\* current or ended, or any id with a claimId that was never generated
LeaseArgs ==
    ended
    \cup {<<id, messages[id].claimId>> :
             id \in {m \in DOMAIN messages : messages[m].status = "claimed"}}
    \cup {<<id, WrongClaimId>> : id \in MessageIdArgs}

\* the functions of the component, called by clients that are not engines
Next ==
    \/ \E a \in PublishArgs :
          /\ publish(a.payload, a.maxAttempts, a.visibilityTimeoutMs)
          /\ UNCHANGED consumers
    \/ \E msgs \in BatchArgs : publishBatch(msgs) /\ UNCHANGED consumers
    \/ peek /\ UNCHANGED consumers
    \/ \E worker \in Payloads : peekByWorker(worker) /\ UNCHANGED consumers
    \/ \E limit \in LimitArgs : claim(limit) /\ UNCHANGED consumers
    \/ \E ids \in IdListArgs : claimByIds(ids) /\ UNCHANGED consumers
    \/ \E lease \in LeaseArgs : ack(lease[1], lease[2]) /\ UNCHANGED consumers
    \/ \E lease \in LeaseArgs, e \in ErrorArgs :
          nack(lease[1], lease[2], e) /\ UNCHANGED consumers
    \/ \E job \in scheduled : reclaimStale(job) /\ UNCHANGED consumers

Spec == Init /\ [][Next]_vars

\* the callbacks ctx.scheduler.runAfter can be handed
Jobs == [delay : {DefaultVisibilityTimeoutMs}, messageId : 1..MaxWork,
         claimId : 1..MaxWork]

\* the scheduler runs every callback it was handed, some time after its delay
SchedulerRuns ==
    \A job \in Jobs : WF_vars(reclaimStale(job) /\ UNCHANGED consumers)

LiveSpec == Spec /\ SchedulerRuns

----------------------------------------------------------------------------
(* Vocabulary of the properties.  A step is read off last': the operation  *)
(* that took it, the arguments it was given and what it returned.          *)

\* the error of the taxonomy an outcome stands for: an id that does not
\* resolve to a row is NotFound, whether the id is malformed or the row gone
ErrorName(outcome) == IF outcome = "InvalidId" THEN "NotFound" ELSE outcome

Failures == {"NotFound", "InvalidState", "LeaseExpired"}

\* the row as a successful nack or reclaimStale leaves it when it keeps it
BackToPending(msg) == [msg EXCEPT !.status = "pending", !.claimId = Undefined]

\* the step is ack(id, c) or nack(id, c, _)
Resolves(id, c) ==
    /\ last'.op \in {"ack", "nack"}
    /\ last'.messageId = id
    /\ last'.claimId = c

\* C1: once the lease <<m, t>> has ended, no ack(m, t) or nack(m, t) succeeds:
\* the call fails and leaves every row as it was, also when m is claimed
\* again under a new token.
C1_Fencing ==
    [][\A lease \in ended :
          Resolves(lease[1], lease[2])
          => /\ ErrorName(last'.outcome) \in Failures
             /\ messages' = messages]_vars

\* an ack or nack with an ended lease was refused while the message is
\* claimed again
C1_Witness ==
    /\ last.op \in {"ack", "nack"}
    /\ <<last.messageId, last.claimId>> \in ended
    /\ last.outcome = "LeaseExpired"
    /\ last.messageId \in DOMAIN messages
    /\ messages[last.messageId].status = "claimed"
    /\ messages[last.messageId].claimId # last.claimId

\* C2: a claim or claimByIds call returns no message that an earlier call
\* returned and that has not gone back to pending since, and returns no
\* message twice.
C2_NoDoubleClaim ==
    [][/\ ClaimedIds(last'.claimed) \cap held = {}
       /\ \A i, j \in 1..Len(last'.claimed) :
             i # j => last'.claimed[i].id # last'.claimed[j].id]_vars

\* a claim passed over an older message that another call holds
C2_Witness ==
    /\ last.op = "claim"
    /\ Len(last.claimed) = 1
    /\ \E id \in held : id < last.claimed[1].id

\* C3: a row leaves the table only in a successful ack of it or in a
\* successful nack of it with attempts >= maxAttempts, and it leaves once: its
\* id is never stored again.
C3_DeletedOnce ==
    [][/\ \A id \in DOMAIN messages \ DOMAIN messages' :
             /\ last'.messageId = id
             /\ \/ last'.op = "ack" /\ last'.outcome = "ok"
                \/ /\ last'.op = "nack"
                   /\ last'.outcome = "exhausted"
                   /\ messages[id].attempts >= messages[id].maxAttempts
       /\ \A id \in DOMAIN history \ DOMAIN messages : id \notin DOMAIN messages'
       /\ \A id \in DOMAIN history' :
             history'[id].deletes = IF id \in DOMAIN messages' THEN 0 ELSE 1
       /\ last'.op \in {"publish", "publishBatch", "peek", "peekByWorker",
                        "claim", "claimByIds", "reclaimStale"}
          => DOMAIN messages \subseteq DOMAIN messages'
       /\ (last'.op = "nack" /\ last'.outcome = "null")
          => DOMAIN messages' = DOMAIN messages]_vars

\* one row left by an ack and another by an exhausting nack
C3_Witness ==
    /\ \E id \in DOMAIN history : history[id].deletes = 1 /\ history[id].nacks = 0
    /\ last.op = "nack"
    /\ last.outcome = "exhausted"
    /\ history[last.messageId].deletes = 1

\* C4: a stored row carries a claimId if and only if its status is claimed.
C4_ClaimIdIffClaimed ==
    \A id \in DOMAIN messages :
        (messages[id].claimId # Undefined) <=> (messages[id].status = "claimed")

\* a row that was claimed and is pending again beside a row that is claimed
C4_Witness ==
    /\ \E id \in DOMAIN messages :
          messages[id].status = "pending" /\ messages[id].attempts > 0
    /\ \E id \in DOMAIN messages : messages[id].status = "claimed"

\* C5: attempts is 0 at publish, never decreases, equals the number of times
\* the row has been claimed, and a claim returns the value it has stored.
C5_Attempts ==
    [][/\ \A id \in DOMAIN messages' \ DOMAIN messages :
             messages'[id].attempts = 0
       /\ \A id \in DOMAIN messages' \cap DOMAIN messages :
             messages'[id].attempts >= messages[id].attempts
       /\ \A id \in DOMAIN messages' :
             messages'[id].attempts = history'[id].claims
       /\ \A i \in 1..Len(last'.claimed) :
             messages'[last'.claimed[i].id].attempts = last'.claimed[i].attempts
      ]_vars

\* a row is claimed for the third time, after a nack and after a reclaim
C5_Witness ==
    /\ last.op \in {"claim", "claimByIds"}
    /\ \E i \in 1..Len(last.claimed) :
          /\ last.claimed[i].attempts = 3
          /\ history[last.claimed[i].id].nacks = 1
          /\ history[last.claimed[i].id].reclaims = 1

\* what ack(id, c) and nack(id, c) come to on the rows db
Expected(db, id, c) ==
    IF id \notin DOMAIN db THEN "NotFound"
    ELSE IF db[id].status # "claimed" THEN "InvalidState"
    ELSE IF db[id].claimId # c THEN "LeaseExpired"
    ELSE "ok"

\* C6: ack and nack fail with NotFound when the row is absent, otherwise with
\* InvalidState when it is not claimed, otherwise with LeaseExpired when the
\* token differs; only otherwise do they succeed, and ack then deletes the
\* row.  A failing call changes neither the rows nor the scheduled callbacks.
C6_ChecksInOrder ==
    [][last'.op \in {"ack", "nack"}
       => LET want == Expected(messages, last'.messageId, last'.claimId)
          IN  IF want = "ok"
              THEN /\ last'.outcome \in {"ok", "null", "exhausted"}
                   /\ last'.op = "ack"
                      => /\ last'.outcome = "ok"
                         /\ DOMAIN messages' = DOMAIN messages \ {last'.messageId}
                         /\ \A id \in DOMAIN messages' : messages'[id] = messages[id]
              ELSE /\ ErrorName(last'.outcome) = want
                   /\ messages' = messages
                   /\ scheduled' = scheduled]_vars

\* an ack with a wrong token was refused and the row is still claimed under
\* the token its holder has
C6_Witness ==
    /\ last.op = "ack"
    /\ last.outcome = "LeaseExpired"
    /\ last.claimId = WrongClaimId
    /\ messages[last.messageId].status = "claimed"
    /\ messages[last.messageId].claimId # Undefined

\* C7 as stated: an ack or nack with an ended lease fails with LeaseExpired,
\* whatever happened to the row since.
C7_AlwaysLeaseExpired ==
    [][\A lease \in ended :
          Resolves(lease[1], lease[2]) => last'.outcome = "LeaseExpired"]_vars

\* C7 as the code has it: an ack or nack with an ended lease fails with
\* NotFound when the row has been deleted since, with InvalidState when the
\* row is pending, and with LeaseExpired when the row is claimed again.
C7_StaleLeaseError ==
    [][\A lease \in ended :
          Resolves(lease[1], lease[2])
          => last'.outcome =
                IF lease[1] \notin DOMAIN messages THEN "NotFound"
                ELSE IF messages[lease[1]].status = "pending" THEN "InvalidState"
                ELSE "LeaseExpired"]_vars

\* a nack with an ended lease met the row pending
C7_Witness ==
    /\ last.op = "nack"
    /\ <<last.messageId, last.claimId>> \in ended
    /\ last.outcome = "InvalidState"
    /\ messages[last.messageId].status = "pending"

\* C8: a successful nack on a row with attempts < maxAttempts returns null and
\* leaves the row pending without claimId, where a claim of it finds it; on a
\* row with attempts >= maxAttempts it deletes the row and returns the
\* exhausted result with the payload as published, the attempts of the row
\* and the error it was given.
C8_Nack ==
    [][(last'.op = "nack" /\ last'.outcome \in {"null", "exhausted"})
       => LET id == last'.messageId
              msg == messages[id]
          IN  IF msg.attempts < msg.maxAttempts
              THEN /\ last'.outcome = "null"
                   /\ last'.exhausted = {}
                   /\ messages' = [messages EXCEPT ![id] = BackToPending(msg)]
                   /\ id \in ClaimedIds(claimByIdsHandler(
                                [Ctx EXCEPT !.messages = messages'],
                                <<id>>).claimed)
              ELSE /\ last'.outcome = "exhausted"
                   /\ DOMAIN messages' = DOMAIN messages \ {id}
                   /\ \A m \in DOMAIN messages' : messages'[m] = messages[m]
                   /\ Cardinality(last'.exhausted) = 1
                   /\ \A x \in last'.exhausted :
                         /\ x.exhausted
                         /\ x.payload = history[id].published.payload
                         /\ x.attempts = msg.attempts
                         /\ \A e \in ErrorArgs \ {UndefinedError} :
                               nack(id, last'.claimId, e) => x.error = e]_vars

\* a nack with an error given exhausted a message whose attempts had gone
\* past its maxAttempts of 1 through a reclaim
C8_Witness ==
    /\ last.op = "nack"
    /\ last.outcome = "exhausted"
    /\ \E x \in last.exhausted :
          x.error = "boom" /\ x.attempts = 2 /\ x.payload = "b"
    /\ history[last.messageId].published.maxAttempts = 1
    /\ history[last.messageId].nacks = 1

\* C9: while no reclaimStale has returned it to pending, a message published
\* with maxAttempts = n is claimed at most n times, its k-th claim reports
\* attempts = k, its nacks before the n-th return null and the n-th returns
\* the exhausted result with attempts n and the payload as published; a
\* deleted message is never returned by a claim again and peek is true only
\* when a pending row is stored.
C9_Exhaustion ==
    [][/\ \A id \in DOMAIN messages' :
             history'[id].reclaims = 0
             => history'[id].claims <= history'[id].published.maxAttempts
       /\ \A id \in DOMAIN messages :
             history[id].reclaims = 0
             => LET n == history[id].published.maxAttempts
                    nacked == last'.op = "nack" /\ last'.messageId = id
                IN  /\ \A i \in 1..Len(last'.claimed) :
                          last'.claimed[i].id = id
                          => last'.claimed[i].attempts = history[id].claims + 1
                    /\ (nacked /\ last'.outcome = "null")
                       => history[id].nacks + 1 < n
                    /\ (nacked /\ last'.outcome = "exhausted")
                       => /\ history[id].nacks + 1 = n
                          /\ history[id].claims = n
                          /\ id \notin DOMAIN messages'
                          /\ \E x \in last'.exhausted :
                                /\ x.exhausted
                                /\ x.attempts = n
                                /\ x.payload = history[id].published.payload
       /\ \A id \in DOMAIN history \ DOMAIN messages :
             id \notin ClaimedIds(last'.claimed)
       /\ last'.op = "peek"
          => (last'.outcome = "true"
              <=> \E id \in DOMAIN messages' : messages'[id].status = "pending")
      ]_vars

\* a message published with the default maxAttempts of 3 was claimed three
\* times, nacked three times and never reclaimed, and the third nack
\* exhausted it
C9_Witness ==
    /\ last.op = "nack"
    /\ last.outcome = "exhausted"
    /\ last.messageId \notin DOMAIN messages
    /\ history[last.messageId].published.maxAttempts = DefaultMaxAttempts
    /\ history[last.messageId].claims = 3
    /\ history[last.messageId].nacks = 3
    /\ history[last.messageId].reclaims = 0
    /\ \E x \in last.exhausted : x.attempts = 3

\* C10: reclaimStale(id, t) raises no error; when the row exists, is claimed
\* and carries the token t it returns the row to pending and clears the
\* claimId, and in every other case it leaves every row as it was.
C10_ReclaimStale ==
    [][last'.op = "reclaimStale"
       => LET id == last'.messageId
          IN  /\ last'.outcome = "ok"
              /\ inserted' = inserted /\ generated' = generated
              /\ IF /\ id \in DOMAIN messages
                    /\ messages[id].status = "claimed"
                    /\ messages[id].claimId = last'.claimId
                 THEN messages' =
                         [messages EXCEPT ![id] = BackToPending(messages[id])]
                 ELSE messages' = messages]_vars

\* the callback of an earlier lease ran while the message was claimed under
\* a later token, and the later lease is still there
C10_Witness ==
    /\ last.op = "reclaimStale"
    /\ <<last.messageId, last.claimId>> \in ended
    /\ last.messageId \in DOMAIN messages
    /\ messages[last.messageId].status = "claimed"
    /\ messages[last.messageId].claimId # last.claimId

\* C11: a reclaimStale whose lease is still the lease of the row returns the
\* row to pending with attempts one more than it had before the claim of that
\* lease, whatever attempts is to maxAttempts; reclaimStale deletes no row and
\* does the same to the rows whatever the maxAttempts of the row is.
C11_TimeoutNeverExhausts ==
    [][last'.op = "reclaimStale"
       => LET id == last'.messageId
              c == last'.claimId
          IN  /\ DOMAIN messages' = DOMAIN messages
              /\ (id \in DOMAIN messages /\ messages[id].claimId = c)
                 => /\ messages'[id].status = "pending"
                    /\ messages'[id].attempts = history[id].leasedAt + 1
                    /\ messages'[id].maxAttempts = messages[id].maxAttempts
                    /\ \A n \in 1..DefaultMaxAttempts :
                          reclaimStaleHandler(
                              [Ctx EXCEPT !.messages[id].maxAttempts = n],
                              id, c).messages
                          = [messages' EXCEPT ![id].maxAttempts = n]]_vars

\* a message that a reclaimStale returned to pending with its attempts used
\* up was claimed again, and the claim reports attempts above maxAttempts
C11_Witness ==
    /\ last.op \in {"claim", "claimByIds"}
    /\ \E i \in 1..Len(last.claimed) :
          LET id == last.claimed[i].id
          IN  /\ last.claimed[i].attempts > messages[id].maxAttempts
              /\ history[id].reclaims >= 1
              /\ history[id].nacks = 0

\* C12: every claimed row has the reclaim callback of its lease scheduled,
\* and when the scheduler runs every callback a claimed row does not stay
\* claimed: it becomes pending, where a claim returns it, unless an
\* ack or a nack has deleted it.
C12_NoLeaseForever ==
    /\ [](\A id \in DOMAIN messages :
             messages[id].status = "claimed"
             => [delay |-> messages[id].visibilityTimeoutMs, messageId |-> id,
                 claimId |-> messages[id].claimId] \in scheduled)
    /\ [](\A id \in DOMAIN messages :
             messages[id].status = "pending"
             => id \in ClaimedIds(claimByIdsHandler(Ctx, <<id>>).claimed))
    /\ \A id \in 1..MaxWork :
          (id \in DOMAIN messages /\ messages[id].status = "claimed")
          ~> (id \notin DOMAIN messages \/ messages[id].status = "pending")

\* a row nobody acked or nacked is pending again through its callback, and
\* no callback is left to run
C12_Witness ==
    /\ last.op = "reclaimStale"
    /\ last.messageId \in DOMAIN messages
    /\ messages[last.messageId].status = "pending"
    /\ history[last.messageId].nacks = 0
    /\ history[last.messageId].reclaims = 1
    /\ scheduled = {}

\* C13: ack and nack succeed whenever the row is claimed under the token
\* given, the reclaim callback of the lease still scheduled or not; of the
\* ack, nack and reclaimStale calls made for one lease exactly one changes
\* the rows, the first to commit: it ends the lease, an ack or nack that
\* comes after fails, and a reclaimStale that comes after changes nothing.
C13_LeaseRace ==
    [][last'.op \in {"ack", "nack", "reclaimStale"}
       => LET id == last'.messageId
              t == last'.claimId
              live == /\ id \in DOMAIN messages
                      /\ messages[id].status = "claimed"
                      /\ messages[id].claimId = t
          IN  IF live
              THEN /\ last'.outcome \in {"ok", "null", "exhausted"}
                   /\ messages' # messages
                   /\ <<id, t>> \notin ended
                   /\ <<id, t>> \in ended'
              ELSE /\ messages' = messages
                   /\ ended' = ended
                   /\ last'.op \in {"ack", "nack"}
                      => ErrorName(last'.outcome) \in Failures
                   /\ last'.op = "reclaimStale" => last'.outcome = "ok"]_vars

\* a nack committed before the callback of its lease, and the callback then
\* changed nothing
C13_Witness ==
    /\ last.op = "reclaimStale"
    /\ <<last.messageId, last.claimId>> \in ended
    /\ last.messageId \in DOMAIN messages
    /\ messages[last.messageId].status = "pending"
    /\ history[last.messageId].nacks = 1
    /\ history[last.messageId].reclaims = 0
    /\ history[last.messageId].claims = 1

\* C14: whatever publish, claim, ack, nack and reclaimStale have done, peek
\* returns false if and only if no row is pending, and a peek filtered by a
\* worker returns false if and only if no row of that worker is pending;
\* neither changes a row.
C14_Peek ==
    [][/\ last'.op = "peek"
          => /\ last'.outcome \in {"true", "false"}
             /\ last'.outcome = "false"
                <=> \A id \in DOMAIN messages : messages[id].status # "pending"
             /\ messages' = messages
       /\ \A worker \in Payloads :
             peekByWorker(worker)
             => /\ last'.outcome \in {"true", "false"}
                /\ last'.outcome = "false"
                   <=> \A id \in DOMAIN messages :
                          \/ messages[id].status # "pending"
                          \/ messages[id].payload # worker
                /\ messages' = messages]_vars

\* a queue that holds rows, all of them claimed, peeks false
C14_Witness ==
    /\ last.op = "peek"
    /\ last.outcome = "false"
    /\ Cardinality(DOMAIN messages) = 2
    /\ \A id \in DOMAIN messages : messages[id].status = "claimed"

\* C15: claim(limit) on a queue with p pending rows returns min(limit, p)
\* rows: the oldest pending rows, oldest first (ids are handed out in
\* insertion order), each once and each under a claimId of its own.
C15_Fifo ==
    [][\A limit \in LimitArgs :
          claim(limit)
          => LET lim == IF limit = Undefined THEN DefaultLimit ELSE limit
                 pending == {id \in DOMAIN messages :
                                messages[id].status = "pending"}
                 p == Cardinality(pending)
                 got == last'.claimed
             IN  /\ Len(got) = IF lim < p THEN lim ELSE p
                 /\ \A i \in 1..Len(got) : got[i].id \in pending
                 /\ \A i, j \in 1..Len(got) :
                       i < j => /\ got[i].id < got[j].id
                                /\ got[i].claimId # got[j].claimId
                 /\ \A id \in pending \ ClaimedIds(got) :
                       \A i \in 1..Len(got) : got[i].id < id]_vars

\* two messages published one after the other were returned by one claim in
\* that order
C15_Witness ==
    /\ last.op = "claim"
    /\ Len(last.claimed) = 2
    /\ last.claimed[1].id = 1
    /\ last.claimed[2].id = 2
    /\ last.claimed[1].claimId # last.claimed[2].claimId

\* C16: on an empty queue peek is false and claim returns nothing, and
\* publish, then claim(1), then ack with the id and claimId the claim returned
\* lead from an empty queue to an empty queue: the claim returns the message
\* published, the ack succeeds, and after it peek is false and claim returns
\* nothing, as before the publish.
C16_RoundTrip ==
    DOMAIN messages = {}
    => /\ peekHandler(Ctx).outcome = "false"
       /\ \A limit \in LimitArgs : claimHandler(Ctx, limit).claimed = << >>
       /\ \A a \in PublishArgs :
             LET published == publishHandler(Ctx, a.payload, a.maxAttempts,
                                             a.visibilityTimeoutMs)
                 claimed == claimHandler([published EXCEPT !.ids = << >>], 1)
                 msg == claimed.claimed[1]
                 acked == ackHandler([claimed EXCEPT !.claimed = << >>],
                                     msg.id, msg.claimId)
             IN  /\ Len(claimed.claimed) = 1
                 /\ msg.id = published.ids[1]
                 /\ msg.payload = a.payload
                 /\ acked.outcome = "ok"
                 /\ acked.messages = messages
                 /\ peekHandler(acked).outcome = peekHandler(Ctx).outcome
                 /\ \A limit \in LimitArgs :
                       claimHandler(acked, limit).claimed
                       = claimHandler(Ctx, limit).claimed

\* the queue is empty after a message was published to the empty queue,
\* claimed once and acked
C16_Witness ==
    /\ last.op = "ack"
    /\ last.outcome = "ok"
    /\ DOMAIN messages = {}
    /\ inserted = 1
    /\ history[1].claims = 1
    /\ history[1].nacks = 0
    /\ history[1].reclaims = 0

----------------------------------------------------------------------------
(* The reactive consumer, consume().  An engine step is what one task of   *)
(* the JavaScript event loop does: the subscription callback, or the       *)
(* continuation of processLoop after an await.  A mutation commits in a    *)
(* step of its own, as one transaction of the store.                       *)

queue == <<messages, inserted, generated, scheduled, last, history, held,
           ended>>

\* the result of the peek query the engines subscribe to, on the table as it is
peekNow == peekHandler(Ctx).outcome

\* the subscription: the result of the query when the subscription starts,
\* and then every new result, go to the client, which calls the callback
\* with each of them, in order.  A transaction that leaves the result as it
\* was sends nothing.
push ==
    LET after == peekHandler([Ctx EXCEPT !.messages = messages']).outcome
    IN  inbox' = [e \in Engines |->
                     IF engine[e].subscribed /\ after # peekNow
                     THEN Append(inbox[e], after)
                     ELSE inbox[e]]

\* the ids of a batch
BatchIds(claimed) == [k \in 1..Len(claimed) |-> claimed[k].id]

RECURSIVE processLoop(_)

\* a cycle that ends without clearing processing
finallyKeepsGuard(s) ==
    [s EXCEPT !.pc = "idle", !.claimed = << >>, !.path = "none", !.i = 0,
              !.error = "none", !.calls = << >>, !.resolved = << >>,
              !.cycles = @ - 1]

\* finally { processing = false; if (hasPending) { void processLoop(); } }
finally(s) ==
    LET t == [s EXCEPT !.processing = FALSE, !.pc = "idle", !.claimed = << >>,
                       !.path = "none", !.i = 0, !.error = "none",
                       !.calls = << >>, !.resolved = << >>,
                       !.cycles = @ - 1]
    IN  IF t.hasPending THEN processLoop(t) ELSE t

\* while (hasPending) { ... claim ... }: the test at the head of the loop
whileHasPending(s) ==
    IF s.hasPending
    THEN [s EXCEPT !.pc = "claim", !.claimed = << >>, !.path = "none",
                   !.i = 0, !.error = "none", !.calls = << >>,
                   !.resolved = << >>]
    ELSE finally(s)

\* a processLoop without its guard
processLoopReenters(s) ==
    whileHasPending([s EXCEPT !.processing = TRUE, !.cycles = @ + 1])

\* if (processing) return; processing = true; try { while ... }
processLoop(s) ==
    IF s.processing THEN s
    ELSE whileHasPending([s EXCEPT !.processing = TRUE, !.cycles = @ + 1])

\* client.onUpdate(fns.peek, {}, (result) => { hasPending = result; if
\* (hasPending) { void processLoop(); } }): the client calls the callback with
\* the next result it has received
onUpdate(e) ==
    /\ inbox[e] # << >>
    /\ LET result == Head(inbox[e])
           s == [engine[e] EXCEPT !.seen = result,
                                  !.hasPending = (result = "true")]
       IN  engine' = [engine EXCEPT
                         ![e] = IF s.hasPending THEN processLoop(s) ELSE s]
    /\ inbox' = [inbox EXCEPT ![e] = Tail(@)]
    /\ UNCHANGED <<queue, poller>>

\* the claim mutation the loop has sent commits
claimCommits(e) ==
    /\ engine[e].pc = "claim"
    /\ LET r == claimHandler(Ctx, engine[e].batchSize)
       IN  /\ WithinBounds(r)
           /\ Commit("claim", Undefined, Undefined, r)
           /\ engine' = [engine EXCEPT ![e].pc = "claimed",
                                       ![e].claimed = r.claimed]
           /\ push
           /\ UNCHANGED poller

\* the claim resolves: if (claimed.length === 0) { hasPending = false; break; }
\* and otherwise handler(claimed) is invoked
claimResolves(e) ==
    /\ engine[e].pc = "claimed"
    /\ engine' = [engine EXCEPT ![e] =
          IF Len(@.claimed) = 0
          THEN finally([@ EXCEPT !.hasPending = FALSE])
          ELSE [@ EXCEPT !.pc = "handler", !.path = "batch"]]
    /\ UNCHANGED <<queue, inbox, poller>>

\* the handler invocation under way settles.  On the batch: success sends
\* the acks of Promise.all, failure enters the per-message loop.  On one
\* message: success sends its ack, failure its nack with the error message.
handlerSettles(e, result) ==
    /\ engine[e].pc = "handler"
    /\ LET s == engine[e]
           ids == IF s.path = "batch" THEN BatchIds(s.claimed)
                  ELSE <<s.claimed[s.i].id>>
           t == [s EXCEPT
                    !.calls = Append(@, [ids |-> ids, result |-> result]),
                    !.handled = @ \cup {ids[k] : k \in 1..Len(ids)}]
       IN  engine' = [engine EXCEPT ![e] =
              IF s.path = "batch"
              THEN IF result = "ok" THEN [t EXCEPT !.pc = "ack", !.i = 1]
                   ELSE [t EXCEPT !.path = "each", !.i = 1]
              ELSE IF result = "ok" THEN [t EXCEPT !.pc = "ack"]
                   ELSE [t EXCEPT !.pc = "nack", !.error = result]]
    /\ UNCHANGED <<queue, inbox, poller>>

\* an ack mutation the loop has sent commits.  The acks of Promise.all are
\* all sent and commit one after the other; the first rejection is the one
\* Promise.all rejects with.  In the per-message loop a rejected ack is
\* caught like a handler error and the nack is sent.
ackCommits(e) ==
    /\ engine[e].pc = "ack"
    /\ LET s == engine[e]
           msg == s.claimed[s.i]
           r == ackHandler(Ctx, msg.id, msg.claimId)
           t == [s EXCEPT
                    !.resolved = Append(@, [op |-> "ack", id |-> msg.id,
                                            error |-> "none",
                                            outcome |-> r.outcome]),
                    !.acked = IF r.outcome = "ok" THEN @ \cup {msg.id} ELSE @]
       IN  /\ Commit("ack", msg.id, msg.claimId, r)
           /\ engine' = [engine EXCEPT ![e] =
                 IF s.path = "batch"
                 THEN LET u == [t EXCEPT !.error =
                                   IF @ = "none" /\ r.outcome # "ok"
                                   THEN r.outcome ELSE @]
                      IN  IF s.i < Len(s.claimed) THEN [u EXCEPT !.i = @ + 1]
                          ELSE [u EXCEPT !.pc = "resolved"]
                 ELSE IF r.outcome = "ok" THEN [t EXCEPT !.pc = "resolved"]
                      ELSE [t EXCEPT !.pc = "nack", !.error = r.outcome]]
           /\ push
           /\ UNCHANGED poller

\* the nack mutation the per-message loop has sent commits; when it is
\* rejected nothing catches the error: the loops are left through finally.
\* The value the mutation returns, null or the exhausted message, is not
\* used: await client.mutation(fns.nack, ...) is a statement.
nackCommits(e) ==
    /\ engine[e].pc = "nack"
    /\ LET s == engine[e]
           msg == s.claimed[s.i]
           r == nackHandler(Ctx, msg.id, msg.claimId, s.error)
           t == [s EXCEPT
                    !.resolved = Append(@, [op |-> "nack", id |-> msg.id,
                                            error |-> s.error,
                                            outcome |-> r.outcome])]
       IN  /\ Commit("nack", msg.id, msg.claimId, r)
           /\ engine' = [engine EXCEPT ![e] =
                 IF r.outcome \in {"null", "exhausted"}
                 THEN [t EXCEPT !.pc = "resolved", !.error = "none"]
                 ELSE finally(t)]
           /\ push
           /\ UNCHANGED poller

\* the calls awaited have resolved: Promise.all rejected and the catch block
\* starts the per-message loop, or the per-message loop goes to its next
\* message, or the batch is done: if (claimed.length < batchSize) { hasPending
\* = false; } and the loop tests hasPending again
resolves(e) ==
    /\ engine[e].pc = "resolved"
    /\ LET s == engine[e]
       IN  engine' = [engine EXCEPT ![e] =
              IF s.path = "batch" /\ s.error # "none"
              THEN [s EXCEPT !.path = "each", !.i = 1, !.pc = "handler",
                             !.error = "none"]
              ELSE IF s.path = "each" /\ s.i < Len(s.claimed)
              THEN [s EXCEPT !.i = @ + 1, !.pc = "handler"]
              ELSE whileHasPending(
                       [s EXCEPT !.hasPending =
                           IF Len(s.claimed) < s.batchSize THEN FALSE ELSE @])]
    /\ UNCHANGED <<queue, inbox, poller>>

\* the function consume returned, unsubscribe, is called: the callback is
\* not called any more, also not with results the client has received and
\* not delivered yet.  The flags and a cycle in flight are left as they are.
cancel(e) ==
    /\ engine[e].subscribed
    /\ engine' = [engine EXCEPT ![e] = [@ EXCEPT !.subscribed = FALSE,
                                                 !.cancelled = TRUE]]
    /\ inbox' = [inbox EXCEPT ![e] = << >>]
    /\ UNCHANGED <<queue, poller>>

\* consume() called by the first client, on an empty queue
ConsumeInit ==
    /\ EmptyQueue
    /\ \E b \in BatchSizes : engine = [e \in Engines |-> NewEngine(b, e = 1)]
    /\ inbox = [e \in Engines |-> IF e = 1 THEN <<"false">> ELSE << >>]
    /\ poller = NoPoller

\* producers publish, another client claims a message and does not resolve
\* it, the scheduler runs reclaim callbacks, the engine runs
ConsumeNext ==
    \/ \E a \in PublishArgs :
          /\ publish(a.payload, a.maxAttempts, a.visibilityTimeoutMs)
          /\ UNCHANGED <<engine, poller>>
          /\ push
    \/ claim(Undefined) /\ UNCHANGED <<engine, poller>> /\ push
    \/ \E job \in scheduled : reclaimStale(job) /\ UNCHANGED <<engine, poller>> /\ push
    \/ \E e \in Engines : onUpdate(e)
    \/ \E e \in Engines : claimCommits(e)
    \/ \E e \in Engines : claimResolves(e)
    \/ \E e \in Engines, result \in HandlerResults : handlerSettles(e, result)
    \/ \E e \in Engines : ackCommits(e)
    \/ \E e \in Engines : nackCommits(e)
    \/ \E e \in Engines : resolves(e)
    \/ \E e \in Engines : cancel(e)

ConsumeSpec == ConsumeInit /\ [][ConsumeNext]_vars

\* the messages the test publishes before it starts its consumers
QueueLength == MaxWork \div 2

Published ==
    publishBatchHandler(
        [messages |-> << >>, inserted |-> 0, generated |-> 0,
         scheduled |-> {}, outcome |-> "ok", ids |-> << >>,
         claimed |-> << >>, exhausted |-> {}],
        [k \in 1..QueueLength |->
            [payload |-> "a", maxAttempts |-> Undefined,
             visibilityTimeoutMs |-> Undefined]])

\* QueueLength messages are pending, and consume() is called by each client
DrainInit ==
    /\ messages = Published.messages
    /\ inserted = Published.inserted
    /\ generated = 0
    /\ scheduled = {}
    /\ last = [op |-> "publishBatch", messageId |-> Undefined,
               claimId |-> Undefined, outcome |-> "ok", ids |-> Published.ids,
               claimed |-> << >>, exhausted |-> {}]
    /\ history = [id \in DOMAIN Published.messages |->
                     [published |-> Published.messages[id], claims |-> 0,
                      nacks |-> 0, reclaims |-> 0, deletes |-> 0,
                      leasedAt |-> 0]]
    /\ held = {}
    /\ ended = {}
    /\ \E b \in BatchSizes : engine = [e \in Engines |-> NewEngine(b, TRUE)]
    /\ inbox = [e \in Engines |-> <<"true">>]
    /\ poller = NoPoller

\* what the engine e can do when its handler always succeeds
drain(e) ==
    \/ onUpdate(e)
    \/ claimCommits(e)
    \/ claimResolves(e)
    \/ handlerSettles(e, "ok")
    \/ ackCommits(e)
    \/ resolves(e)

\* nobody publishes, no visibility timeout fires, the handlers succeed
DrainNext == \E e \in Engines : drain(e)

\* every engine goes on: its callbacks are delivered, its mutations commit,
\* its handler returns
DrainSpec ==
    DrainInit /\ [][DrainNext]_vars /\ \A e \in Engines : WF_vars(drain(e))

\* C17: two engines drain a queue of messages published beforehand, their
\* handlers succeed and no visibility timeout fires.  No message is passed
\* to a handler twice, the sets of messages the two engines have acked are
\* disjoint, and in the end every message has been handled and acked by one
\* of them, the table is empty and peek is false.
C17_ExactlyOnce ==
    /\ [](\A e, f \in Engines :
             e # f => /\ engine[e].acked \cap engine[f].acked = {}
                      /\ engine[e].handled \cap engine[f].handled = {})
    /\ [][\A e \in Engines :
             Len(engine'[e].calls) > Len(engine[e].calls)
             => \A k \in 1..Len(engine'[e].calls[Len(engine'[e].calls)].ids) :
                   engine'[e].calls[Len(engine'[e].calls)].ids[k]
                   \notin UNION {engine[f].handled : f \in Engines}]_vars
    /\ <>[](/\ UNION {engine[e].acked : e \in Engines} = 1..QueueLength
            /\ UNION {engine[e].handled : e \in Engines} = 1..QueueLength
            /\ DOMAIN messages = {}
            /\ peekNow = "false"
            /\ \A e \in Engines : engine[e].pc = "idle")

\* each engine has acked a message, every message is acked and both engines
\* are at rest
C17_Witness ==
    /\ \A e \in Engines : engine[e].acked # {} /\ engine[e].pc = "idle"
    /\ UNION {engine[e].acked : e \in Engines} = 1..QueueLength
    /\ DOMAIN messages = {}
    /\ peekNow = "false"

\* C18: a signal of pending work is never lost.  An engine is never at rest
\* (no cycle running, no claim sent) when the result its callback was called
\* with last is true, no further result is on its way and a message is
\* pending.
C18_SignalNeverLost ==
    \A e \in Engines :
        ~ /\ engine[e].subscribed
          /\ engine[e].pc = "idle"
          /\ ~ engine[e].processing
          /\ engine[e].seen = "true"
          /\ inbox[e] = << >>
          /\ \E id \in DOMAIN messages : messages[id].status = "pending"

\* C19: how a claimed batch is resolved.  When the handler succeeded on the
\* whole batch the cycle sends an ack for every message and a nack for none;
\* when it failed on the whole batch nothing has been sent at that point, the
\* handler is called once for each message alone, in order, and for each
\* message the cycle sends an ack if and only if that call succeeded and
\* otherwise a nack carrying the description of that call's failure.  A
\* cycle leaves a batch only when every message of it has been resolved so.
C19_BatchResolution ==
    [][\A e \in Engines :
              LET first(s) == s.calls[1]
                  latest(s) == s.calls[Len(s.calls)]
                  alone(s) == /\ first(s).result # "ok"
                              /\ Len(s.calls) = s.i + 1
                              /\ latest(s).ids = <<s.claimed[s.i].id>>
                  sends(s) ==
                      /\ s.calls # << >> => first(s).ids = BatchIds(s.claimed)
                      /\ (s.calls # << >> /\ Len(s.calls) = 1 /\ first(s).result # "ok")
                             => s.resolved = << >>
                      /\ s.pc = "ack" =>
                            IF s.path = "batch"
                            THEN Len(s.calls) = 1 /\ first(s).result = "ok"
                            ELSE alone(s) /\ latest(s).result = "ok"
                      /\ s.pc = "nack" =>
                            /\ alone(s)
                            /\ latest(s).result # "ok"
                            /\ s.error = latest(s).result
                  once(s, k) ==
                      \E j \in 1..Len(s.resolved) :
                          /\ s.resolved[j].id = s.claimed[k].id
                          /\ \A h \in 1..Len(s.resolved) :
                                 s.resolved[h].id = s.claimed[k].id => h = j
                          /\ IF first(s).result = "ok"
                             THEN s.resolved[j].op = "ack"
                             ELSE /\ Len(s.calls) = Len(s.claimed) + 1
                                  /\ s.resolved[j].op =
                                        IF s.calls[k + 1].result = "ok"
                                        THEN "ack" ELSE "nack"
                  leaves(s, t) ==
                      (s.claimed # << >> /\ t.claimed = << >>)
                          => /\ s.pc = "resolved"
                             /\ \A k \in 1..Len(s.claimed) : once(s, k)
              IN  sends(engine'[e]) /\ leaves(engine[e], engine'[e])]_vars

\* C20: a handler that throws never ends the drain loop.  When the call for
\* the whole batch throws, the cycle calls the handler for the first message
\* alone; when a call for one message throws, the cycle sends a nack for
\* that message with the error's description; a cycle leaves a batch in
\* which a call has thrown only when the last message of the batch has had
\* its own call and its ack or nack has been sent, and it then claims again
\* when hasPending is set.  An engine at rest has released its guard, so a
\* later notification starts a cycle.
C20_HandlerErrorNeverEndsLoop ==
    [][\A e \in Engines :
          LET s == engine[e]
              t == engine'[e]
              thrown == \E j \in 1..Len(s.calls) : s.calls[j].result # "ok"
              throws == /\ s.pc = "handler"
                        /\ Len(t.calls) = Len(s.calls) + 1
                        /\ t.calls[Len(t.calls)].result # "ok"
          IN  /\ throws =>
                    IF s.path = "batch"
                    THEN t.pc = "handler" /\ t.path = "each" /\ t.i = 1
                    ELSE /\ t.pc = "nack"
                         /\ t.i = s.i
                         /\ t.error = t.calls[Len(t.calls)].result
              /\ (thrown /\ s.claimed # << >> /\ t.claimed = << >>)
                    => /\ s.pc \in {"resolved", "nack"}
                       /\ s.path = "each"
                       /\ s.i = Len(s.claimed)
                       /\ t.pc = IF t.hasPending THEN "claim" ELSE "idle"
              /\ t.pc = "idle" => ~ t.processing]_vars

\* C21: no message is dropped silently.  A message that has left the queue
\* has been acked by the consumer, or the exhausted result its last nack
\* returned (payload, attempts, error) has been passed on to the application
\* for dead-letter handling.
C21_NeverSilentlyDropped ==
    \A id \in 1..inserted :
        id \notin DOMAIN messages
            => \/ \E e \in Engines : id \in engine[e].acked
               \/ \E e \in Engines :
                     \E x \in engine[e].deadLetters : x.id = id

----------------------------------------------------------------------------
(* The polling consumer: consumePolling.  One loop, a JavaScript task that *)
(* yields at every await.  A call of the client (peek, claim, ack, nack)   *)
(* commits and returns, or is rejected by the lease protocol, or fails in  *)
(* the transport or the store without having committed ("store fault").    *)

StoreFault == "store fault"

\* what a call of the client may come to, apart from what its handler does
Faults == {"none", StoreFault}

\* await new Promise(...): the wait between two polls; the variables of the
\* poll that has ended are out of scope
wait(p) ==
    [p EXCEPT !.pc = "wait", !.claimed = << >>, !.i = 0, !.error = "none"]

\* a catch that lets the error end the loop
catchEnds(p, err) ==
    [p EXCEPT !.pc = "done", !.caught = err, !.thrown = err,
              !.claimed = << >>, !.i = 0, !.error = "none"]

\* catch (err) { console.error("[convex-mq] poll error:", err); } and on to
\* the wait
catch(p, err) == wait([p EXCEPT !.caught = err, !.thrown = err])

\* for (const msg of claimed): the next message, or the end of the try block
nextMessage(p) ==
    IF p.i < Len(p.claimed)
    THEN [p EXCEPT !.i = @ + 1, !.pc = "handler", !.error = "none"]
    ELSE wait(p)

\* a loop that polls once
whileEnds(p) == [p EXCEPT !.pc = "done", !.caught = "none", !.thrown = "none"]

\* while (!controller.signal.aborted) { try { ... client.query(fns.peek, {})
whileNotAborted(p) ==
    IF p.aborted
    THEN [p EXCEPT !.pc = "done", !.caught = "none", !.thrown = "none"]
    ELSE [p EXCEPT !.pc = "peek", !.caught = "none", !.thrown = "none"]

\* the peek query returns
peekResolves(fault) ==
    /\ poller.pc = "peek"
    /\ poller' =
          IF fault # "none" THEN catch(poller, fault)
          ELSE IF peekHandler(Ctx).outcome = "true"
          THEN [poller EXCEPT !.pc = "claim"]
          ELSE wait(poller)
    /\ UNCHANGED <<queue, engine, inbox>>

\* the claim mutation commits and returns; for (const msg of claimed)
pollClaims(fault) ==
    /\ poller.pc = "claim"
    /\ IF fault # "none"
       THEN /\ poller' = catch(poller, fault)
            /\ UNCHANGED queue
       ELSE LET r == claimHandler(Ctx, poller.batchSize)
            IN  /\ WithinBounds(r)
                /\ Commit("claim", Undefined, Undefined, r)
                /\ poller' = nextMessage([poller EXCEPT !.claimed = r.claimed])
    /\ UNCHANGED <<engine, inbox>>

\* await handler([msg]) returns or throws
pollHandles(result) ==
    /\ poller.pc = "handler"
    /\ LET msg == poller.claimed[poller.i]
           p == [poller EXCEPT !.handled = @ \cup {msg.id}]
       IN  poller' = IF result = "ok" THEN [p EXCEPT !.pc = "ack"]
                     ELSE [p EXCEPT !.pc = "nack", !.error = result]
    /\ UNCHANGED <<queue, engine, inbox>>

\* the ack mutation commits, or its error is caught by the inner catch
pollAcks(fault) ==
    /\ poller.pc = "ack"
    /\ LET msg == poller.claimed[poller.i]
           r == ackHandler(Ctx, msg.id, msg.claimId)
       IN  IF fault # "none"
           THEN /\ poller' = [poller EXCEPT !.pc = "nack", !.error = fault,
                                             !.thrown = fault]
                /\ UNCHANGED queue
           ELSE /\ Commit("ack", msg.id, msg.claimId, r)
                /\ poller' = IF r.outcome = "ok" THEN nextMessage(poller)
                             ELSE [poller EXCEPT !.pc = "nack",
                                                 !.error = r.outcome,
                                                 !.thrown = r.outcome]
    /\ UNCHANGED <<engine, inbox>>

\* the nack mutation commits, or its error leaves the for loop and is caught
\* by the catch of the poll
pollNacks(fault) ==
    /\ poller.pc = "nack"
    /\ LET msg == poller.claimed[poller.i]
           r == nackHandler(Ctx, msg.id, msg.claimId, poller.error)
       IN  IF fault # "none"
           THEN /\ poller' = catch(poller, fault)
                /\ UNCHANGED queue
           ELSE /\ Commit("nack", msg.id, msg.claimId, r)
                /\ poller' = IF r.outcome \in {"null", "exhausted"}
                             THEN nextMessage([poller EXCEPT
                                                  !.thrown = "none"])
                             ELSE catch(poller, r.outcome)
    /\ UNCHANGED <<engine, inbox>>

\* setTimeout(resolve, pollIntervalMs) fires: the loop tests the signal
timerFires ==
    /\ poller.pc = "wait"
    /\ poller' = whileNotAborted(poller)
    /\ UNCHANGED <<queue, engine, inbox>>

\* controller.abort(): the signal is set and the listeners registered on it
\* run.  The listener of the wait exists while the loop is in the wait it
\* was registered in: it clears the timer and resolves, and the loop tests
\* the signal.  An abort event is dispatched once, to the listeners there
\* are at that moment.
abort ==
    /\ poller.pc \notin {"off", "done"}
    /\ ~ poller.aborted
    /\ poller' = LET p == [poller EXCEPT !.aborted = TRUE]
                 IN  IF p.pc = "wait" THEN whileNotAborted(p) ELSE p
    /\ UNCHANGED <<queue, engine, inbox>>

\* consumePolling() called on an empty queue
PollInit ==
    /\ EmptyQueue
    /\ engine = [e \in Engines |-> NewEngine(1, FALSE)]
    /\ inbox = [e \in Engines |-> << >>]
    /\ \E b \in BatchSizes : poller = NewPoller(b)

\* the loop, a publisher, the scheduler, and the caller who aborts
PollNext ==
    \/ \E a \in PublishArgs :
          /\ publish(a.payload, a.maxAttempts, a.visibilityTimeoutMs)
          /\ UNCHANGED consumers
    \/ \E job \in scheduled : reclaimStale(job) /\ UNCHANGED consumers
    \/ \E fault \in Faults : peekResolves(fault)
    \/ \E fault \in Faults : pollClaims(fault)
    \/ \E result \in HandlerResults : pollHandles(result)
    \/ \E fault \in Faults : pollAcks(fault)
    \/ \E fault \in Faults : pollNacks(fault)
    \/ timerFires
    \/ abort

PollSpec == PollInit /\ [][PollNext]_vars

\* claims the loop may still have to make for the row: one for each attempt
\* the row has left, and at least one while it is not in the loop's hands
owed(msg, mine) ==
    LET left == msg.maxAttempts - msg.attempts
    IN  IF left > 0 THEN left ELSE IF mine THEN 0 ELSE 1

RECURSIVE Owed(_, _, _)
Owed(db, ids, p) ==
    IF ids = {} THEN 0
    ELSE LET id == CHOOSE x \in ids : TRUE
             mine == \E k \in 1..Len(p.claimed) :
                        /\ p.claimed[k].id = id
                        /\ db[id].status = "claimed"
                        /\ db[id].claimId = p.claimed[k].claimId
         IN  owed(db[id], mine) + Owed(db, ids \ {id}, p)

\* the bound of the model, for the clients around the loop: they start no
\* transaction that would leave the loop without the tokens it may need
LeavesRoom(r) ==
    r.inserted + r.generated + Owed(r.messages, DOMAIN r.messages, poller)
        <= MaxWork

\* the lease of the callback is not in the hands of the loop: the handler
\* returns within the visibility timeout, so the scheduler runs the callback
\* of a message the loop holds after the loop has resolved it
lapse(job) ==
    /\ \A k \in 1..Len(poller.claimed) : poller.claimed[k].claimId # job.claimId
    /\ reclaimStale(job)
    /\ UNCHANGED consumers

\* a publisher; a consumer that claims and crashes; the scheduler; the loop,
\* never aborted, whose calls of the client all succeed
DeliveryNext ==
    \/ \E a \in PublishArgs :
          /\ LeavesRoom(publishHandler(Ctx, a.payload, a.maxAttempts,
                                       a.visibilityTimeoutMs))
          /\ publish(a.payload, a.maxAttempts, a.visibilityTimeoutMs)
          /\ UNCHANGED consumers
    \/ /\ LeavesRoom(claimHandler(Ctx, Undefined))
       /\ claim(Undefined)
       /\ UNCHANGED consumers
    \/ \E job \in Jobs : lapse(job)
    \/ peekResolves("none")
    \/ pollClaims("none")
    \/ \E result \in HandlerResults : pollHandles(result)
    \/ pollAcks("none")
    \/ pollNacks("none")
    \/ timerFires

\* the scheduler runs its callbacks, the timer fires, the calls of the client
\* return and the handler terminates
DeliverySpec ==
    /\ PollInit
    /\ [][DeliveryNext]_vars
    /\ WF_vars(\E job \in Jobs : lapse(job))
    /\ WF_vars(peekResolves("none"))
    /\ WF_vars(pollClaims("none"))
    /\ WF_vars(\E result \in HandlerResults : pollHandles(result))
    /\ WF_vars(pollAcks("none"))
    /\ WF_vars(pollNacks("none"))
    /\ WF_vars(timerFires)

\* C22: at-least-once delivery through consumePolling.  Every message in the
\* queue is eventually passed to the handler of the loop, and no message
\* leaves the queue that was never claimed.
C22_AtLeastOnce ==
    /\ [](\A id \in 1..inserted :
             id \notin DOMAIN messages => history[id].claims >= 1)
    /\ [](poller.handled \subseteq {id \in 1..inserted : history[id].claims >= 1})
    /\ \A id \in 1..MaxWork :
          (id \in DOMAIN messages) ~> (id \in poller.handled)

\* the loop has handled a message that another consumer had claimed and
\* left to its visibility timeout, and a message it had nacked before
C22_Witness ==
    /\ \E id \in poller.handled :
          history[id].reclaims >= 1
    /\ \E id \in poller.handled :
          history[id].nacks >= 1 /\ history[id].claims >= 2

\* C23: after the function consume returned has been called, the engine
\* starts no new drain cycle (processLoop does not pass its guard again),
\* and the cycle in flight leaves the batch it holds only when an ack or a
\* nack has been sent for every message of the batch.
C23_Cancel ==
    [][\A e \in Engines :
          LET s == engine[e]
              t == engine'[e]
              sent(k) == \/ \E j \in 1..Len(s.resolved) :
                               s.resolved[j].id = s.claimed[k].id
                         \/ s.pc = "nack" /\ s.i = k
          IN  s.cancelled =>
                 /\ s.pc = "idle" => t.pc = "idle"
                 /\ ~ (s.pc = "nack" /\ t.pc = "claim")
                 /\ (s.claimed # << >> /\ t.claimed = << >>)
                       => \A k \in 1..Len(s.claimed) : sent(k)]_vars

----------------------------------------------------------------------------
(* Errors in a poll.                                                       *)

\* a step in which a call of the store the poll awaits returns or throws
storeCallSettles ==
    /\ poller.pc \in {"peek", "claim", "ack", "nack"}
    /\ poller'.aborted = poller.aborted
    /\ poller' # poller

----------------------------------------------------------------------------
(* Aborting the polling loop.                                              *)

\* C25: once the controller is aborted the loop sends no peek of a further
\* poll and is not left in the wait between two polls: the abort ends the
\* wait at once, whenever it is signalled.  The claim that follows a peek
\* already sent belongs to the poll in flight.
C25_AbortEndsLoop ==
    [][poller'.aborted
          => /\ poller'.pc # "wait"
             /\ poller'.pc = "peek" => poller.pc = "peek"]_vars

----------------------------------------------------------------------------
(* The library mode with a filter: the queue of workerTasks.ts.            *)

\* the functions workerTasks.ts exports, called by any clients: the
\* unfiltered ones, peekByWorker and claimByWorker, and the scheduler.  The
\* publish of the library mode takes the limits from the options of the
\* queue, and nack is called with an error.
LibraryNext ==
    \/ \E worker \in Payloads :
          publish(worker, Undefined, Undefined) /\ UNCHANGED consumers
    \/ peek /\ UNCHANGED consumers
    \/ \E worker \in Payloads : peekByWorker(worker) /\ UNCHANGED consumers
    \/ \E limit \in LimitArgs : claim(limit) /\ UNCHANGED consumers
    \/ \E limit \in LimitArgs, worker \in Payloads :
          claimByWorker(limit, worker) /\ UNCHANGED consumers
    \/ \E lease \in LeaseArgs : ack(lease[1], lease[2]) /\ UNCHANGED consumers
    \/ \E lease \in LeaseArgs :
          nack(lease[1], lease[2], "boom") /\ UNCHANGED consumers
    \/ \E job \in scheduled : reclaimStale(job) /\ UNCHANGED consumers

LibrarySpec == Init /\ [][LibraryNext]_vars

\* C26: claimByWorker(limit, w) claims and returns the oldest pending rows
\* of worker w, up to the limit, and nothing else: every other row is left
\* as it was, so what the other workers peek and would claim is unchanged.
\* peekByWorker(w) returns true if and only if a pending row of w exists.
C26_FilteredClaim ==
    [][\A worker \in Payloads :
          /\ \A limit \in LimitArgs :
                claimByWorker(limit, worker)
                => LET ret == last'.claimed
                       mine == {id \in DOMAIN messages :
                                   /\ messages[id].status = "pending"
                                   /\ messages[id].payload = worker}
                       lim == IF limit = Undefined THEN DefaultLibraryLimit
                              ELSE limit
                   IN  /\ last'.outcome = "ok"
                       /\ \A k \in 1..Len(ret) :
                             /\ ret[k].id \in mine
                             /\ ret[k].payload = worker
                             /\ messages'[ret[k].id].status = "claimed"
                             /\ messages'[ret[k].id].claimId = ret[k].claimId
                       /\ Len(ret) = IF Cardinality(mine) < lim
                                     THEN Cardinality(mine) ELSE lim
                       /\ Cardinality(ClaimedIds(ret)) = Len(ret)
                       /\ \A id \in mine \ ClaimedIds(ret) :
                             \A k \in 1..Len(ret) : ret[k].id < id
                       /\ DOMAIN messages' = DOMAIN messages
                       /\ \A id \in DOMAIN messages \ ClaimedIds(ret) :
                             messages'[id] = messages[id]
                       /\ \A other \in Payloads \ {worker} :
                             /\ byWorker(messages', other)
                                   = byWorker(messages, other)
                             /\ peekByWorkerHandler(Ctx, other).outcome
                                   = peekByWorkerHandler(
                                        [Ctx EXCEPT !.messages = messages'],
                                        other).outcome
          /\ peekByWorker(worker)
             => /\ last'.outcome = "true"
                   <=> \E id \in DOMAIN messages :
                          /\ messages[id].status = "pending"
                          /\ messages[id].payload = worker
                /\ last'.outcome \in {"true", "false"}
                /\ messages' = messages]_vars

\* a claim for one worker has passed over an older pending row of another
\* worker, which is still pending and which that worker peeks
C26_Witness ==
    /\ last.op = "claimByWorker"
    /\ Len(last.claimed) = 1
    /\ \E id \in DOMAIN messages :
          /\ id < last.claimed[1].id
          /\ messages[id].status = "pending"
          /\ messages[id].payload # last.claimed[1].payload
          /\ peekByWorkerHandler(Ctx, messages[id].payload).outcome = "true"

----------------------------------------------------------------------------
(* claimByIds.                                                             *)

\* C27: claimByIds(ids) succeeds whatever ids it is given.  It claims the
\* listed rows that are pending, each once: status claimed, attempts one
\* more, a claimId no lease has carried, the reclaim scheduled after the
\* row's visibility timeout; it returns these rows and no other, and every
\* other row, listed or not, is left as it was.
C27_ClaimByIds ==
    [][\A ids \in IdListArgs :
          claimByIds(ids)
          => LET ret == last'.claimed
                 listed == {ids[k] : k \in 1..Len(ids)}
                 pend == {id \in DOMAIN messages :
                             id \in listed /\ messages[id].status = "pending"}
             IN  /\ last'.outcome = "ok"
                 /\ ClaimedIds(ret) = pend
                 /\ Len(ret) = Cardinality(pend)
                 /\ \A k \in 1..Len(ret) :
                       LET id == ret[k].id
                           c == ret[k].claimId
                       IN  /\ messages'[id] =
                                 [messages[id] EXCEPT
                                     !.status = "claimed",
                                     !.attempts = @ + 1,
                                     !.claimId = c]
                           /\ ret[k].attempts = messages[id].attempts + 1
                           /\ ret[k].payload = messages[id].payload
                           /\ \A l \in ended : l[2] # c
                           /\ \A m \in DOMAIN messages :
                                 messages[m].claimId # c
                           /\ \A j \in 1..Len(ret) :
                                 j # k => ret[j].claimId # c
                           /\ [delay |-> messages[id].visibilityTimeoutMs,
                               messageId |-> id, claimId |-> c] \in scheduled'
                 /\ DOMAIN messages' = DOMAIN messages
                 /\ \A id \in DOMAIN messages \ pend :
                       messages'[id] = messages[id]
                 /\ Cardinality(scheduled' \ scheduled) = Len(ret)
                 /\ scheduled \subseteq scheduled']_vars

\* claimByIds has claimed one row while an older row is claimed under an
\* earlier lease, which it has kept
C27_Witness ==
    /\ last.op = "claimByIds"
    /\ last.outcome = "ok"
    /\ Len(last.claimed) = 1
    /\ \E id \in DOMAIN messages :
          /\ id < last.claimed[1].id
          /\ messages[id].status = "claimed"
          /\ messages[id].claimId < last.claimed[1].claimId

----------------------------------------------------------------------------
(* publishBatch when an insert fails.                                      *)

\* the handler of publishBatch when its faultAt-th ctx.db.insert throws
\* (faultAt = 0: none does): the inserts before it have written to the
\* transaction, the error leaves the loop and the handler
RECURSIVE publishBatchInserts(_, _, _)
publishBatchInserts(ctx, msgs, faultAt) ==
    IF msgs = << >> THEN ctx
    ELSE IF faultAt = 1 THEN [ctx EXCEPT !.outcome = StoreFault]
    ELSE publishBatchInserts(
             insert(ctx, Head(msgs).payload, Head(msgs).maxAttempts,
                    Head(msgs).visibilityTimeoutMs),
             Tail(msgs), IF faultAt = 0 THEN 0 ELSE faultAt - 1)

\* a mutation that keeps what it wrote before it threw
mutationKeepsWrites(ctx, r) == r

\* mutation({ handler }): the handler runs in one transaction, which is
\* committed when the handler returns and discarded when it throws
mutation(ctx, r) ==
    IF r.outcome = StoreFault THEN [ctx EXCEPT !.outcome = StoreFault] ELSE r

publishBatchMutation(msgs, faultAt) ==
    LET r == mutation(Ctx, publishBatchInserts(Ctx, msgs, faultAt))
    IN  /\ WithinBounds(r)
        /\ Commit("publishBatch", Undefined, Undefined, r)

\* publishers of batches whose inserts may fail, and consumers that peek,
\* claim and ack
BatchNext ==
    \/ \E msgs \in BatchArgs : \E faultAt \in 0..Len(msgs) :
          publishBatchMutation(msgs, faultAt) /\ UNCHANGED consumers
    \/ peek /\ UNCHANGED consumers
    \/ \E limit \in LimitArgs : claim(limit) /\ UNCHANGED consumers
    \/ \E lease \in LeaseArgs : ack(lease[1], lease[2]) /\ UNCHANGED consumers
    \/ \E job \in scheduled : reclaimStale(job) /\ UNCHANGED consumers

BatchSpec == Init /\ [][BatchNext]_vars

\* C28 (as stated): the inserts of publishBatch are atomic units of their
\* own, so no step stores more than one row.
C28_IndependentInserts ==
    [][inserted' <= inserted + 1]_vars

\* C28 (amended): publishBatch is one transaction.  When no insert fails
\* every message of the batch is stored, pending with no attempts, in the
\* order given, and the ids are returned; when an insert fails nothing is
\* stored, the inserts made before it included.  No step of a publishBatch
\* leaves a state in which only a part of the batch is stored.
C28_AllOrNothing ==
    [][\A msgs \in BatchArgs : \A faultAt \in 0..Len(msgs) :
          publishBatchMutation(msgs, faultAt)
          => IF faultAt = 0
             THEN /\ last'.outcome = "ok"
                  /\ last'.ids = [k \in 1..Len(msgs) |-> inserted + k]
                  /\ DOMAIN messages' = DOMAIN messages \cup
                                           (inserted + 1..inserted + Len(msgs))
                  /\ \A k \in 1..Len(msgs) :
                        /\ messages'[inserted + k].payload = msgs[k].payload
                        /\ messages'[inserted + k].status = "pending"
                        /\ messages'[inserted + k].attempts = 0
                  /\ \A id \in DOMAIN messages : messages'[id] = messages[id]
             ELSE /\ last'.outcome = StoreFault
                  /\ last'.ids = << >>
                  /\ messages' = messages
                  /\ inserted' = inserted
                  /\ peekHandler([Ctx EXCEPT !.messages = messages']).outcome
                        = peekHandler(Ctx).outcome]_vars

\* a batch of two whose second insert failed has left the empty queue empty;
\* peek returns false
C28_Witness ==
    /\ last.op = "publishBatch"
    /\ last.outcome = StoreFault
    /\ messages = << >>
    /\ inserted = 0
    /\ peekHandler(Ctx).outcome = "false"

----------------------------------------------------------------------------
(* Options besides batchSize.                                              *)

\* the options the engines are started with besides batchSize: engine 1
\* with { worker: "a" }, engine 2 with { worker: "b" }.  consume takes
\* batchSize out of its options and reads no other key: peek is subscribed
\* to with {} and claim is called with { limit: batchSize }, as claimCommits
\* has it.
OptionsWorker == <<"a", "b">>

\* C29: an engine started with { worker: w } hands its handler, and claims,
\* messages of worker w only.
C29_OptionsForwarded ==
    \A e \in Engines :
       /\ \A id \in engine[e].handled :
             history[id].published.payload = OptionsWorker[e]
       /\ \A k \in 1..Len(engine[e].claimed) :
             engine[e].claimed[k].payload = OptionsWorker[e]

----------------------------------------------------------------------------
(* One drain cycle at a time.                                              *)

\* C30: an engine has at most one invocation of processLoop past its guard
\* at any time: while processing is set exactly one cycle runs and it is the
\* one that claims, calls the handler, acks and nacks; while it is clear none
\* does.  A notification delivered while a cycle runs changes hasPending
\* (and the result seen last) and nothing else.
C30_OneCycle ==
    /\ [](\A e \in Engines :
             /\ engine[e].cycles = IF engine[e].processing THEN 1 ELSE 0
             /\ engine[e].processing <=> engine[e].pc # "idle")
    /\ [][\A e \in Engines :
             (engine[e].processing /\ inbox'[e] # inbox[e] /\ onUpdate(e))
             => engine'[e] = [engine[e] EXCEPT
                                 !.seen = Head(inbox[e]),
                                 !.hasPending = (Head(inbox[e]) = "true")]]_vars

\* a cycle is at its handler and a notification delivered since it claimed
\* has cleared hasPending
C30_Witness ==
    \E e \in Engines :
       /\ engine[e].processing
       /\ engine[e].pc = "handler"
       /\ engine[e].seen = "false"
       /\ ~ engine[e].hasPending
       /\ engine[e].cycles = 1

----------------------------------------------------------------------------
(* The per-message fallback.                                               *)

\* C31: a cycle goes from the batch to the per-message loop only when the
\* handler call on the whole batch has failed, and then no message of the
\* batch has been acked; when that call has succeeded the handler is not
\* called again for the batch the cycle holds.
C31_Fallback ==
    [][\A e \in Engines :
          LET s == engine[e]
              t == engine'[e]
          IN  /\ (s.path = "batch" /\ t.path = "each")
                 => /\ t.calls[1].result # "ok"
                    /\ \A j \in 1..Len(t.resolved) :
                          ~ /\ t.resolved[j].op = "ack"
                            /\ t.resolved[j].outcome = "ok"
              /\ (t.calls # << >> /\ t.calls[1].result = "ok")
                 => Len(t.calls) = 1]_vars

----------------------------------------------------------------------------
(* One poll.                                                               *)

\* C32: a poll sends its claim only after its peek has returned true, and
\* once; it passes the messages claimed to the handler one at a time in the
\* order claimed; after the handler has returned for a message the ack is
\* sent and after it has thrown the nack, and the poll ends its batch only
\* at the resolution of the last message.  (A nack sent after a rejected ack
\* is let pass as the resolution of that message.)
C32_Poll ==
    [][LET s == poller
           t == poller'
       IN  /\ (t.pc = "claim" /\ s.pc # "claim")
              => s.pc = "peek" /\ peekHandler(Ctx).outcome = "true"
           /\ (t.pc = "handler" /\ s.pc # "handler")
              => /\ t.i = s.i + 1
                 /\ t.claimed = IF s.pc = "claim" THEN last'.claimed
                                ELSE s.claimed
                 /\ t.handled = s.handled
           /\ (s.pc = "handler" /\ t.pc # "handler")
              => /\ t.pc \in {"ack", "nack"}
                 /\ t.i = s.i
                 /\ t.pc = "ack" <=> t.error = "none"
                 /\ t.handled = s.handled \cup {s.claimed[s.i].id}
           /\ (s.claimed # << >> /\ t.claimed = << >>)
              => /\ s.i = Len(s.claimed)
                 /\ s.pc \in {"ack", "nack"}]_vars

----------------------------------------------------------------------------
(* Claims after the cancellation.                                          *)

\* C35: an engine whose cancel function has been called sends no claim: the
\* cycle in flight resolves the batch it holds and claims no more.
C35_NoClaimAfterCancel ==
    [][\A e \in Engines :
          (engine[e].cancelled /\ engine'[e].pc = "claim")
          => engine[e].pc = "claim"]_vars

----------------------------------------------------------------------------
(* The guard is released.                                                  *)

\* C34: processing is set only while a cycle of the engine is executing.
\* However a cycle ends, by its loop condition, by an empty claim or by the
\* error of a call it awaits, processing is clear afterwards unless a new
\* cycle has started at once; and a notification of pending work delivered
\* to an engine at rest starts a cycle.
C34_GuardReleased ==
    [][\A e \in Engines :
          LET s == engine[e]
              t == engine'[e]
          IN  /\ t.processing => t.pc # "idle" /\ t.cycles = 1
              /\ (s.pc # "idle" /\ t.claimed = << >> /\ t.pc \in {"idle", "claim"}
                    /\ s.pc # "claim")
                 => t.processing = (t.pc = "claim")
              /\ (onUpdate(e) /\ Head(inbox[e]) = "true")
                 => t.processing /\ t.pc # "idle"]_vars

\* a cycle has ended at a nack the store rejected, and the engine is at rest
\* with its guard clear
C34_Witness ==
    \E e \in Engines :
       /\ engine[e].pc = "idle"
       /\ ~ engine[e].processing
       /\ engine[e].handled # {}
       /\ last.op = "nack"
       /\ last.outcome \notin {"null", "exhausted"}
       /\ last.messageId \in engine[e].handled

----------------------------------------------------------------------------
(* The place of a message that comes back.                                 *)

\* C36: a row that nack or reclaimStale has returned to pending is claimed
\* before every pending row published after it: a claim that returns a row
\* returns, ahead of it, every older pending row that has come back.
C36_KeepsPlace ==
    [][last'.op = "claim"
          => \A k \in 1..Len(last'.claimed) :
                \A id \in DOMAIN messages :
                   (/\ id < last'.claimed[k].id
                    /\ messages[id].status = "pending"
                    /\ history[id].nacks + history[id].reclaims > 0)
                   => \E j \in 1..(k - 1) : last'.claimed[j].id = id]_vars

\* a claim of one message has returned a row that had come back from a nack
\* or a reclaim, and has left a newer pending row that was never claimed
C36_Witness ==
    /\ last.op = "claim"
    /\ Len(last.claimed) = 1
    /\ history[last.claimed[1].id].nacks + history[last.claimed[1].id].reclaims > 0
    /\ \E id \in DOMAIN messages :
          /\ id > last.claimed[1].id
          /\ messages[id].status = "pending"
          /\ messages[id].attempts = 0

----------------------------------------------------------------------------
(* claimByIds with an id listed twice.                                     *)

\* lists that name one id twice
RepeatedIdArgs == {<<a, a>> : a \in MessageIdArgs}

\* publishers, clients that call claimByIds with an id listed twice and
\* resolve what they hold, and the scheduler
RepeatNext ==
    \/ \E a \in PublishArgs :
          /\ publish(a.payload, a.maxAttempts, a.visibilityTimeoutMs)
          /\ UNCHANGED consumers
    \/ \E ids \in RepeatedIdArgs : claimByIds(ids) /\ UNCHANGED consumers
    \/ \E lease \in LeaseArgs : ack(lease[1], lease[2]) /\ UNCHANGED consumers
    \/ \E lease \in LeaseArgs, e \in ErrorArgs :
          nack(lease[1], lease[2], e) /\ UNCHANGED consumers
    \/ \E job \in scheduled : reclaimStale(job) /\ UNCHANGED consumers

RepeatSpec == Init /\ [][RepeatNext]_vars

\* C38: claimByIds given the id of a pending row twice claims the row once:
\* it returns it once, adds one to its attempts, generates one claimId and
\* schedules one reclaim; given twice an id it cannot claim it does nothing.
C38_ListedTwice ==
    [][\A ids \in RepeatedIdArgs :
          claimByIds(ids)
          => LET id == ids[1]
                 ret == last'.claimed
             IN  IF id \in DOMAIN messages /\ messages[id].status = "pending"
                 THEN /\ Len(ret) = 1
                      /\ ret[1].id = id
                      /\ ret[1].attempts = messages[id].attempts + 1
                      /\ messages'[id].attempts = messages[id].attempts + 1
                      /\ messages'[id].status = "claimed"
                      /\ messages'[id].claimId = ret[1].claimId
                      /\ generated' = generated + 1
                      /\ scheduled' = scheduled \cup
                            {[delay |-> messages[id].visibilityTimeoutMs,
                              messageId |-> id, claimId |-> ret[1].claimId]}
                      /\ Cardinality(scheduled') = Cardinality(scheduled) + 1
                 ELSE /\ ret = << >>
                      /\ messages' = messages
                      /\ generated' = generated
                      /\ scheduled' = scheduled]_vars

\* claimByIds, given its id twice, has claimed for the second time a row that
\* a nack had returned to pending
C38_Witness ==
    /\ last.op = "claimByIds"
    /\ Len(last.claimed) = 1
    /\ last.claimed[1].attempts = 2
    /\ messages[last.claimed[1].id].attempts = 2
    /\ history[last.claimed[1].id].nacks = 1

----------------------------------------------------------------------------
(* The library mode: the functions MessageQueue.api returns, on a table of *)
(* the user.  The user's fields are kept on the row itself and returned as *)
(* data; the payload of the model stands for them.                         *)

\* new MessageQueue(tableName, fields): options?.defaultMaxAttempts ?? 3
LibraryDefaultMaxAttempts == 3

\* options?.defaultVisibilityTimeoutMs ?? 30_000
LibraryDefaultVisibilityTimeoutMs == 30000

\* publish: ctx.db.insert(tableName, { ...args, status: "pending", attempts:
\* 0, maxAttempts: opts.defaultMaxAttempts, visibilityTimeoutMs: ... })
libraryPublishHandler(ctx, data) ==
    LET id == ctx.inserted + 1
        row == [payload |-> data,
                status |-> "pending",
                attempts |-> 0,
                maxAttempts |-> LibraryDefaultMaxAttempts,
                visibilityTimeoutMs |-> LibraryDefaultVisibilityTimeoutMs,
                claimId |-> Undefined]
    IN  [ctx EXCEPT !.messages = (id :> row) @@ ctx.messages,
                    !.inserted = id,
                    !.ids = Append(@, id)]

\* claim without a filter: the by_status index at pending, order("asc"),
\* take(limit); for (const msg of pending) { if (msg.status !== "pending")
\* continue; patch, runAfter, push }, msg being the row as the scan read it
RECURSIVE libraryClaimLoop(_, _, _)
libraryClaimLoop(ctx, pending, snapshot) ==
    IF pending = << >> THEN ctx
    ELSE LET id == Head(pending)
             msg == snapshot[id]
             claimId == generateClaimId(ctx.generated + 1)
         IN  IF msg.status # "pending"
             THEN libraryClaimLoop(ctx, Tail(pending), snapshot)
             ELSE libraryClaimLoop(
                      [ctx EXCEPT
                          !.generated = @ + 1,
                          !.messages[id] = [@ EXCEPT
                                               !.status = "claimed",
                                               !.claimId = claimId,
                                               !.attempts = msg.attempts + 1],
                          !.scheduled = @ \cup
                              {[delay |-> msg.visibilityTimeoutMs,
                                messageId |-> id, claimId |-> claimId]},
                          !.claimed = Append(@, [id |-> id,
                                                 claimId |-> claimId,
                                                 payload |-> msg.payload,
                                                 attempts |-> msg.attempts + 1])],
                      Tail(pending), snapshot)

libraryClaimHandler(ctx, limit) ==
    LET lim == IF limit = Undefined THEN DefaultLibraryLimit ELSE limit
        pending == take(SortedSeq({id \in DOMAIN ctx.messages :
                                      ctx.messages[id].status = "pending"}),
                        lim)
    IN  libraryClaimLoop(ctx, pending, ctx.messages)

\* the checks of ack and of nack: if (!msg) throw, if (msg.status !==
\* "claimed") throw, if (msg.claimId !== args.claimId) throw
libraryChecks(db, messageId, claimId) ==
    IF messageId \notin DOMAIN db THEN "NotFound"
    ELSE IF db[messageId].status # "claimed" THEN "InvalidState"
    ELSE IF db[messageId].claimId # claimId THEN "LeaseExpired"
    ELSE "ok"

\* ack: ctx.db.delete(msg._id)
libraryAckHandler(ctx, messageId, claimId) ==
    LET check == libraryChecks(ctx.messages, messageId, claimId)
    IN  IF check # "ok" THEN [ctx EXCEPT !.outcome = check]
        ELSE [ctx EXCEPT !.messages =
                 [m \in DOMAIN ctx.messages \ {messageId} |-> ctx.messages[m]]]

\* if (msg.attempts >= msg.maxAttempts)
libraryNackExhausted(msg) == msg.attempts >= msg.maxAttempts

\* nack: the exhausted row is deleted and returned with error: args.error ??
\* "", any other row is patched to pending without its claimId
libraryNackHandler(ctx, messageId, claimId, error) ==
    LET check == libraryChecks(ctx.messages, messageId, claimId)
        msg == ctx.messages[messageId]
    IN  IF check # "ok" THEN [ctx EXCEPT !.outcome = check]
        ELSE IF libraryNackExhausted(msg)
        THEN [ctx EXCEPT
                 !.messages = [m \in DOMAIN ctx.messages \ {messageId} |->
                                  ctx.messages[m]],
                 !.outcome = "exhausted",
                 !.exhausted = {[exhausted |-> TRUE,
                                 payload |-> msg.payload,
                                 attempts |-> msg.attempts,
                                 error |-> IF error = UndefinedError THEN ""
                                           ELSE error]}]
        ELSE [ctx EXCEPT
                 !.messages[messageId] = [@ EXCEPT !.status = "pending",
                                                   !.claimId = Undefined],
                 !.outcome = "null"]

\* reclaimStale: three silent returns, then the patch to pending
libraryReclaimStaleHandler(ctx, messageId, claimId) ==
    IF messageId \notin DOMAIN ctx.messages THEN ctx
    ELSE IF ctx.messages[messageId].status # "claimed" THEN ctx
    ELSE IF ctx.messages[messageId].claimId # claimId THEN ctx
    ELSE [ctx EXCEPT
             !.messages[messageId] = [@ EXCEPT !.status = "pending",
                                               !.claimId = Undefined]]

\* the limits and errors the two modes are compared on: given, not defaulted
ExplicitLimits == LimitArgs \ {Undefined}

ExplicitErrors == ErrorArgs \ {UndefinedError}

\* leases a caller may pass, for ids the table has handed out
HandedOutLeaseArgs == {lease \in LeaseArgs : lease[1] \in 1..inserted}

libraryPublish(data) ==
    LET r == libraryPublishHandler(Ctx, data)
    IN  /\ WithinBounds(r)
        /\ Commit("publish", Undefined, Undefined, r)

libraryClaim(limit) ==
    LET r == libraryClaimHandler(Ctx, limit)
    IN  /\ WithinBounds(r)
        /\ Commit("claim", Undefined, Undefined, r)

libraryAck(messageId, claimId) ==
    Commit("ack", messageId, claimId,
           libraryAckHandler(Ctx, messageId, claimId))

libraryNack(messageId, claimId, error) ==
    Commit("nack", messageId, claimId,
           libraryNackHandler(Ctx, messageId, claimId, error))

libraryReclaimStale(job) ==
    /\ job \in scheduled
    /\ Commit("reclaimStale", job.messageId, job.claimId,
              LET r == libraryReclaimStaleHandler(Ctx, job.messageId,
                                                  job.claimId)
              IN  [r EXCEPT !.scheduled = @ \ {job}])

\* a queue of the library mode, its clients and its scheduler
ModesNext ==
    \/ \E data \in Payloads : libraryPublish(data) /\ UNCHANGED consumers
    \/ \E limit \in ExplicitLimits : libraryClaim(limit) /\ UNCHANGED consumers
    \/ \E lease \in HandedOutLeaseArgs :
          libraryAck(lease[1], lease[2]) /\ UNCHANGED consumers
    \/ \E lease \in HandedOutLeaseArgs, error \in ExplicitErrors :
          libraryNack(lease[1], lease[2], error) /\ UNCHANGED consumers
    \/ \E job \in scheduled : libraryReclaimStale(job) /\ UNCHANGED consumers

ModesSpec == Init /\ [][ModesNext]_vars

\* C39: whatever operations a queue of the library mode has gone through,
\* each operation it performs next does to the table, to the scheduler and
\* to its caller what the function of the component does in the same state
\* with the same arguments: the same rows with the same status, attempts and
\* claimId, the same deletion, the same callback scheduled, the same
\* success, error or exhausted result.  The two queues, started empty and
\* given the same operations, therefore go through the same states.
C39_SameProtocol ==
    [][/\ \A data \in Payloads :
             libraryPublish(data) => publish(data, Undefined, Undefined)
       /\ \A limit \in ExplicitLimits : libraryClaim(limit) => claim(limit)
       /\ \A lease \in HandedOutLeaseArgs :
             /\ libraryAck(lease[1], lease[2]) => ack(lease[1], lease[2])
             /\ \A error \in ExplicitErrors :
                   libraryNack(lease[1], lease[2], error)
                   => nack(lease[1], lease[2], error)
       /\ \A job \in scheduled : libraryReclaimStale(job) => reclaimStale(job)
      ]_vars

\* a queue of the library mode has claimed a message three times, a reclaim
\* and a nack having returned it, and the third nack has exhausted it
C39_Witness ==
    /\ last.op = "nack"
    /\ last.outcome = "exhausted"
    /\ \E x \in last.exhausted :
          /\ x.attempts = LibraryDefaultMaxAttempts
          /\ x.error = "boom"
    /\ last.messageId \notin DOMAIN messages
    /\ history[last.messageId].claims = LibraryDefaultMaxAttempts
    /\ history[last.messageId].reclaims >= 1

----------------------------------------------------------------------------
(* The reactive filtered consumer, consumeFiltered().  The engine          *)
(* subscribes to a listing query of the application and claims the         *)
(* messages it lists with claimByIds.                                      *)

\* listPending: const limit = args.limit ?? 100
DefaultListLimit == 100

\* listPending: the pending rows in index order, as { id, payload, attempts }
listPendingHandler(db) ==
    LET pending == take(byStatusPending(db), DefaultListLimit)
    IN  [k \in 1..Len(pending) |->
            [id |-> pending[k], payload |-> db[pending[k]].payload,
             attempts |-> db[pending[k]].attempts]]

\* the listing query of the example: listPending, then pending.filter(msg =>
\* msg.payload.worker === args.worker)
getTasksForWorker(db, worker) ==
    SelectSeq(listPendingHandler(db), LAMBDA msg : msg.payload = worker)

\* queryArgs of the engine: { worker: "a" }
QueryArgs == "a"

\* the subscription to the listing: every new result goes to the client, a
\* transaction that leaves the result as it was sends nothing
pushList ==
    LET before == getTasksForWorker(messages, QueryArgs)
        after == getTasksForWorker(messages', QueryArgs)
    IN  inbox' = [e \in Engines |->
                     IF engine[e].subscribed /\ after # before
                     THEN Append(inbox[e], after)
                     ELSE inbox[e]]

\* the ids of a listing
ListedIds(list) == {list[k].id : k \in 1..Len(list)}

\* consumeFiltered(client, fns, queryArgs, handler, { batchSize }): the
\* variables of one engine.  processing and pendingMessages are the two
\* variables of the code; pc is where its processLoop is waiting, toClaim
\* the ids of the claimByIds call of the round, claimed the batch it holds,
\* i the message the per-message loop is at, error the error that loop has
\* caught.  listing is the result the callback was called with last,
\* submitted the ids passed to claimByIds so far, mine the ids claimByIds
\* has returned to the engine since the callback was called last.
NewFiltered(batchSize, subscribed) ==
    [batchSize |-> batchSize, subscribed |-> subscribed, cancelled |-> FALSE,
     processing |-> FALSE, pendingMessages |-> << >>,
     pc |-> "idle", toClaim |-> << >>, claimed |-> << >>, path |-> "none",
     i |-> 0, error |-> "none", listing |-> << >>, submitted |-> {},
     mine |-> {}]

RECURSIVE filteredProcessLoop(_)

\* finally { processing = false; if (pendingMessages.length > 0) { void
\* processLoop(); } }
filteredFinally(s) ==
    LET t == [s EXCEPT !.processing = FALSE, !.pc = "idle",
                       !.toClaim = << >>, !.claimed = << >>,
                       !.path = "none", !.i = 0, !.error = "none"]
    IN  IF t.pendingMessages # << >> THEN filteredProcessLoop(t) ELSE t

\* pendingMessages.slice(0, batchSize).map((m) => m.id)
sliceIds(pendingMessages, batchSize) ==
    LET toClaim == take(pendingMessages, batchSize)
    IN  [k \in 1..Len(toClaim) |-> toClaim[k].id]

\* while (pendingMessages.length > 0) { toClaim = ...; claimByIds ... }: the
\* test at the head of the loop, and the call a round begins with
whilePendingMessages(s) ==
    IF s.pendingMessages # << >>
    THEN LET messageIds == sliceIds(s.pendingMessages, s.batchSize)
         IN  [s EXCEPT !.pc = "claimByIds", !.toClaim = messageIds,
                       !.claimed = << >>, !.path = "none", !.i = 0,
                       !.error = "none",
                       !.submitted = @ \cup {messageIds[k] :
                                                k \in 1..Len(messageIds)}]
    ELSE filteredFinally(s)

\* if (processing) return; processing = true; try { while ... }
filteredProcessLoop(s) ==
    IF s.processing THEN s
    ELSE whilePendingMessages([s EXCEPT !.processing = TRUE])

\* client.onUpdate(fns.list, queryArgs, (result) => { pendingMessages =
\* result; if (pendingMessages.length > 0) { void processLoop(); } })
filteredOnUpdate(e) ==
    /\ inbox[e] # << >>
    /\ LET result == Head(inbox[e])
           s == [engine[e] EXCEPT !.pendingMessages = result,
                                  !.listing = result, !.mine = {}]
       IN  engine' = [engine EXCEPT
                         ![e] = IF result # << >> THEN filteredProcessLoop(s)
                                ELSE s]
    /\ inbox' = [inbox EXCEPT ![e] = Tail(@)]
    /\ UNCHANGED <<queue, poller>>

\* the claimByIds mutation the round has sent commits
claimByIdsCommits(e) ==
    /\ engine[e].pc = "claimByIds"
    /\ LET r == claimByIdsHandler(Ctx, engine[e].toClaim)
       IN  /\ WithinBounds(r)
           /\ Commit("claimByIds", Undefined, Undefined, r)
           /\ engine' = [engine EXCEPT ![e].pc = "claimed",
                                       ![e].claimed = r.claimed]
           /\ pushList
           /\ UNCHANGED poller

\* a filter that removes nothing
removeNothing(pendingMessages, claimed) == pendingMessages

\* pendingMessages.filter((m) => !claimedIds.has(m.id))
removeClaimed(pendingMessages, claimed) ==
    SelectSeq(pendingMessages, LAMBDA m : m.id \notin ClaimedIds(claimed))

\* claimByIds resolves: if (claimed.length === 0) { pendingMessages = [];
\* break; }, and otherwise the claimed ids leave pendingMessages, as it is
\* now, and handler(claimed) is invoked
claimByIdsResolves(e) ==
    /\ engine[e].pc = "claimed"
    /\ engine' = [engine EXCEPT ![e] =
          IF Len(@.claimed) = 0
          THEN filteredFinally([@ EXCEPT !.pendingMessages = << >>])
          ELSE [@ EXCEPT !.pendingMessages =
                             removeClaimed(@, engine[e].claimed),
                         !.mine = @ \cup ClaimedIds(engine[e].claimed),
                         !.pc = "handler", !.path = "batch"]]
    /\ UNCHANGED <<queue, inbox, poller>>

\* the handler invocation under way settles, as in consume
filteredHandlerSettles(e, result) ==
    /\ engine[e].pc = "handler"
    /\ LET s == engine[e]
       IN  engine' = [engine EXCEPT ![e] =
              IF s.path = "batch"
              THEN IF result = "ok" THEN [s EXCEPT !.pc = "ack", !.i = 1]
                   ELSE [s EXCEPT !.path = "each", !.i = 1]
              ELSE IF result = "ok" THEN [s EXCEPT !.pc = "ack"]
                   ELSE [s EXCEPT !.pc = "nack", !.error = result]]
    /\ UNCHANGED <<queue, inbox, poller>>

\* an ack mutation the round has sent commits: one of Promise.all, or the
\* one of the per-message loop, whose rejection is caught and sends the nack
filteredAckCommits(e) ==
    /\ engine[e].pc = "ack"
    /\ LET s == engine[e]
           msg == s.claimed[s.i]
           r == ackHandler(Ctx, msg.id, msg.claimId)
       IN  /\ Commit("ack", msg.id, msg.claimId, r)
           /\ engine' = [engine EXCEPT ![e] =
                 IF s.path = "batch"
                 THEN LET u == [s EXCEPT !.error =
                                   IF @ = "none" /\ r.outcome # "ok"
                                   THEN r.outcome ELSE @]
                      IN  IF s.i < Len(s.claimed) THEN [u EXCEPT !.i = @ + 1]
                          ELSE [u EXCEPT !.pc = "resolved"]
                 ELSE IF r.outcome = "ok" THEN [s EXCEPT !.pc = "resolved"]
                      ELSE [s EXCEPT !.pc = "nack", !.error = r.outcome]]
           /\ pushList
           /\ UNCHANGED poller

\* the nack mutation of the per-message loop commits; a rejection is caught
\* by nothing and leaves the loops through finally
filteredNackCommits(e) ==
    /\ engine[e].pc = "nack"
    /\ LET s == engine[e]
           msg == s.claimed[s.i]
           r == nackHandler(Ctx, msg.id, msg.claimId, s.error)
       IN  /\ Commit("nack", msg.id, msg.claimId, r)
           /\ engine' = [engine EXCEPT ![e] =
                 IF r.outcome \in {"null", "exhausted"}
                 THEN [s EXCEPT !.pc = "resolved", !.error = "none"]
                 ELSE filteredFinally(s)]
           /\ pushList
           /\ UNCHANGED poller

\* the calls awaited have resolved: the catch block starts the per-message
\* loop, or that loop goes to its next message, or the round is over and the
\* loop tests pendingMessages again
filteredResolves(e) ==
    /\ engine[e].pc = "resolved"
    /\ LET s == engine[e]
       IN  engine' = [engine EXCEPT ![e] =
              IF s.path = "batch" /\ s.error # "none"
              THEN [s EXCEPT !.path = "each", !.i = 1, !.pc = "handler",
                             !.error = "none"]
              ELSE IF s.path = "each" /\ s.i < Len(s.claimed)
              THEN [s EXCEPT !.i = @ + 1, !.pc = "handler"]
              ELSE whilePendingMessages(s)]
    /\ UNCHANGED <<queue, inbox, poller>>

\* consumeFiltered() called by the first client with { worker: "a" }, on an
\* empty queue: the subscription delivers the empty listing first
FilteredInit ==
    /\ EmptyQueue
    /\ \E b \in BatchSizes : engine = [e \in Engines |-> NewFiltered(b, e = 1)]
    /\ inbox = [e \in Engines |-> IF e = 1 THEN << << >> >> ELSE << >>]
    /\ poller = NoPoller

\* producers publish, another client claims a message and does not resolve
\* it, the scheduler runs reclaim callbacks, the engine runs
FilteredNext ==
    \/ \E a \in PublishArgs :
          /\ publish(a.payload, a.maxAttempts, a.visibilityTimeoutMs)
          /\ UNCHANGED <<engine, poller>>
          /\ pushList
    \/ claim(Undefined) /\ UNCHANGED <<engine, poller>> /\ pushList
    \/ \E job \in scheduled :
          reclaimStale(job) /\ UNCHANGED <<engine, poller>> /\ pushList
    \/ \E e \in Engines : filteredOnUpdate(e)
    \/ \E e \in Engines : claimByIdsCommits(e)
    \/ \E e \in Engines : claimByIdsResolves(e)
    \/ \E e \in Engines, result \in HandlerResults :
          filteredHandlerSettles(e, result)
    \/ \E e \in Engines : filteredAckCommits(e)
    \/ \E e \in Engines : filteredNackCommits(e)
    \/ \E e \in Engines : filteredResolves(e)

FilteredSpec == FilteredInit /\ [][FilteredNext]_vars

\* C37: no candidate is starved.  Stated for the states in which nothing is
\* left that would submit one: when the engine is at rest, outside
\* processLoop, and the client holds no listing it has not delivered, every
\* message of the listing delivered last has been passed to claimByIds.
C37_NoStarvation ==
    \A e \in Engines :
       (/\ engine[e].subscribed
        /\ engine[e].pc = "idle"
        /\ inbox[e] = << >>)
       => ListedIds(engine[e].listing) \subseteq engine[e].submitted

\* C33: the callback replaces pendingMessages with the listing it is called
\* with; a round passes to claimByIds the ids of the first candidates, at
\* most batchSize of them, and claimByIds returns messages among those ids
\* only; when the call has returned messages their ids leave
\* pendingMessages and the other candidates stay; and an id returned to the
\* engine is neither a candidate nor passed to claimByIds again for as long
\* as the callback has not been called with another listing.
C33_CandidateSet ==
    [][\A e \in Engines :
          LET s == engine[e]
              t == engine'[e]
              sent == {t.toClaim[k] : k \in 1..Len(t.toClaim)}
          IN  /\ filteredOnUpdate(e)
                 => /\ t.pendingMessages = Head(inbox[e])
                    /\ t.listing = Head(inbox[e])
              /\ (s.pc # "claimByIds" /\ t.pc = "claimByIds")
                 => /\ t.toClaim = sliceIds(t.pendingMessages, t.batchSize)
                    /\ Len(t.toClaim) >= 1
                    /\ Len(t.toClaim) <= t.batchSize
                    /\ sent \cap t.mine = {}
              /\ claimByIdsCommits(e)
                 => /\ last'.op = "claimByIds"
                    /\ ClaimedIds(last'.claimed)
                       \subseteq {s.toClaim[k] : k \in 1..Len(s.toClaim)}
                    /\ t.claimed = last'.claimed
              /\ (claimByIdsResolves(e) /\ s.claimed # << >>)
                 => /\ ListedIds(t.pendingMessages)
                       = ListedIds(s.pendingMessages) \ ClaimedIds(s.claimed)
                    /\ ClaimedIds(s.claimed) \subseteq t.mine
              /\ ListedIds(t.pendingMessages) \cap t.mine = {}]_vars

\* an engine of batch size 1 was called with a listing of two messages,
\* claimed and resolved the first, and passes the second to claimByIds
C33_Witness ==
    \E e \in Engines :
       /\ engine[e].batchSize = 1
       /\ Len(engine[e].listing) = 2
       /\ engine[e].mine = {engine[e].listing[1].id}
       /\ engine[e].pc = "claimByIds"
       /\ engine[e].toClaim = <<engine[e].listing[2].id>>
       /\ engine[e].listing[1].id \notin DOMAIN messages

====
